---------------------------- MODULE Spec2Model ----------------------------
(* Resumable orchestration layer of the restaurant scraper:                *)
(*   gmaps_scraper/checkpoint.py     CheckpointManager                     *)
(*   gmaps_scraper/deduplication.py  DeduplicationManager                  *)
(*   gmaps_scraper/scraper.py        run_search_phase, run_details_phase   *)
(* The persisted files are variables that survive a kill of the process;   *)
(* the managers' caches and the phases' locals are lost by it.  A file     *)
(* write (open, dump, close) is one step; writes are assumed to succeed.   *)
(* Timestamps (last_update, started_at, timestamp) are left out.           *)
EXTENDS Integers, Sequences, FiniteSets, TLC

(***************************************************************************)
(* Bounds of the model                                                     *)
(***************************************************************************)
MaxQueue == 6
MaxCrashQueue == 5
MaxRuns == 2
MaxRecords == 2
MaxLog == 3

(***************************************************************************)
(* Generic helpers                                                         *)
(***************************************************************************)
Range(s) == {s[k] : k \in 1..Len(s)}

Min(a, b) == IF a < b THEN a ELSE b

MaxOf(S) == CHOOSE m \in S : \A n \in S : n <= m

MinOf(S) == CHOOSE m \in S : \A n \in S : m <= n

\* s[:n], a Python prefix slice
Prefix(s, n) == SubSeq(s, 1, Min(n, Len(s)))

\* every ordering of a finite set: list(a_set) has an arbitrary order
Perms(S) ==
    {f \in [1..Cardinality(S) -> S] : \A a, b \in 1..Cardinality(S) : a # b => f[a] # f[b]}

NoDuplicates(s) == \A a, b \in 1..Len(s) : a # b => s[a] # s[b]

(***************************************************************************)
(* Data: links are token sequences, text is a character sequence           *)
(***************************************************************************)
NoId == ""

HexPairs == <<"0x1:0xa", "0x2:0xb", "0x3:0xc", "0x4:0xd", "0x5:0xe", "0x6:0xf",
              "0x7:0xa", "0x8:0xb", "0x9:0xc">>

IsHexPair(tok) == \E k \in 1..Len(HexPairs) : HexPairs[k] = tok

\* a place link whose identifier follows the "!1s" marker
Link(k) == <<"/maps/place/", "diner", "/data=", "!1s", HexPairs[k]>>

\* the same place as Link(1), identifier not behind the "!1s" marker
LinkData1 == <<"/maps/place/", "diner", "/data=", "!3m", HexPairs[1]>>

\* a link without any identifier
LinkRaw == <<"/maps/search/", "thai">>

\* re.search(r"!1s(0x[a-f0-9]+:0x[a-f0-9]+)", s): the positions that match
MarkerMatches(link) ==
    {k \in 1..(Len(link) - 1) : link[k] = "!1s" /\ IsHexPair(link[k + 1])}

DataMatches(link) ==
    {k \in 1..Len(link) : /\ IsHexPair(link[k])
                          /\ \E d \in 1..(k - 1) : link[d] = "/data="}

PlaceSegments(link) ==
    {k \in 1..(Len(link) - 1) : link[k] = "/maps/place/"}

extract_place_id(link) ==
    IF MarkerMatches(link) # {} THEN link[MinOf(MarkerMatches(link)) + 1]
    ELSE IF DataMatches(link) # {} THEN link[MinOf(DataMatches(link))]
    ELSE IF PlaceSegments(link) # {} THEN link[MinOf(PlaceSegments(link)) + 1]
    ELSE NoId

NameJoe == <<"J", "o", "e">>
AddrMain == <<"1", " ", "M", "a", "i", "n">>
NoText == <<>>

\* what a fetched page can show: a name, and an address or none
Pages == {[name |-> NameJoe, address |-> AddrMain],
          [name |-> NameJoe, address |-> NoText]}

Whitespace == {" ", "\t", "\n"}

LowerChar(c) ==
    CASE c = "J" -> "j"
      [] c = "M" -> "m"
      [] OTHER -> c

Lower(t) == [k \in 1..Len(t) |-> LowerChar(t[k])]

RECURSIVE StripLeft(_)
StripLeft(t) ==
    IF t # <<>> /\ Head(t) \in Whitespace THEN StripLeft(Tail(t)) ELSE t

RECURSIVE StripRight(_)
StripRight(t) ==
    IF t # <<>> /\ t[Len(t)] \in Whitespace
    THEN StripRight(SubSeq(t, 1, Len(t) - 1)) ELSE t

Strip(t) == StripRight(StripLeft(t))

(***************************************************************************)
(* deduplication.py: the index is [ids, hashes]; a record is               *)
(* [place_id, name, address], with NoId / NoText for an absent field       *)
(***************************************************************************)
EmptyIndex == [ids |-> {}, hashes |-> {}]

\* the key is hashed as it is, without lower() and strip()
HashRawMut(name, address) == name \o <<"|">> \o address

\* md5 of the combined key, taken as injective
compute_hash(name, address) == Strip(Lower(name)) \o <<"|">> \o Strip(Lower(address))

HasFallback(r) == r.name # NoText /\ r.address # NoText

is_duplicate(d, r) ==
    \/ r.place_id # NoId /\ r.place_id \in d.ids
    \/ HasFallback(r) /\ compute_hash(r.name, r.address) \in d.hashes

\* the index is replaced by the record's identifier
MarkSeenReplaceMut(d, r) ==
    [ids |-> IF r.place_id # NoId THEN {r.place_id} ELSE {}, hashes |-> {}]

\* the fallback hash is never recorded
MarkSeenIdOnlyMut(d, r) ==
    [ids |-> IF r.place_id # NoId THEN d.ids \cup {r.place_id} ELSE d.ids,
     hashes |-> d.hashes]

mark_seen(d, r) ==
    [ids |-> IF r.place_id # NoId THEN d.ids \cup {r.place_id} ELSE d.ids,
     hashes |-> IF HasFallback(r)
                THEN d.hashes \cup {compute_hash(r.name, r.address)}
                ELSE d.hashes]

\* the index is rebuilt from the records alone
MarkAllReplaceMut(d, rs) ==
    IF rs = <<>> THEN EmptyIndex
    ELSE mark_seen(EmptyIndex, rs[Len(rs)])

RECURSIVE mark_all_seen(_, _)
mark_all_seen(d, rs) ==
    IF rs = <<>> THEN d ELSE mark_all_seen(mark_seen(d, Head(rs)), Tail(rs))

\* the records are compared with the index as it was before the call only
FilterKeepAllMut(d, rs) == [unique |-> rs, index |-> d]

FilterNoMarkMut(d, rs) ==
    [unique |-> SelectSeq(rs, LAMBDA r : ~is_duplicate(d, r)),
     index |-> mark_all_seen(d, rs)]

\* filter_unique over records that are not None: [unique, index]
RECURSIVE filter_unique(_, _)
filter_unique(d, rs) ==
    IF rs = <<>> THEN [unique |-> <<>>, index |-> d]
    ELSE IF is_duplicate(d, Head(rs)) THEN filter_unique(d, Tail(rs))
    ELSE LET rest == filter_unique(mark_seen(d, Head(rs)), Tail(rs))
         IN  [unique |-> <<Head(rs)>> \o rest.unique, index |-> rest.index]

\* no link is ever taken as seen
IsLinkSeenMut(d, link) == FALSE

is_link_seen(d, link) ==
    MarkerMatches(link) # {} /\ link[MinOf(MarkerMatches(link)) + 1] \in d.ids

\* a link is dropped when any pattern of _extract_place_id finds a seen identifier
FilterByExtractMut(d, links) ==
    SelectSeq(links, LAMBDA l : extract_place_id(l) \notin d.ids)

filter_unseen_links(d, links) == SelectSeq(links, LAMBDA l : ~is_link_seen(d, l))

(***************************************************************************)
(* checkpoint.py: pure parts of CheckpointManager                          *)
(***************************************************************************)
PersistedFiles == {"seen_places", "completed_searches", "pending_links"}

\* a file is well-formed, absent, not JSON, or JSON of another shape (a number)
FileKinds == {"ok", "missing", "unparseable", "number"}

AllFilesOk == [f \in PersistedFiles |-> "ok"]

\* the loaders' common shape: os.path.exists, open, json.load and the
\* conversion of the value (set(...), data.get(...), a slice) inside
\* try ... except (json.JSONDecodeError, IOError); a value of another shape
\* makes the conversion raise TypeError or AttributeError, which is not caught
load_json(kind, val, empty) ==
    [raised |-> kind = "number", val |-> IF kind = "ok" THEN val ELSE empty]

NotLoaded == [loaded |-> FALSE, val |-> <<>>]
NotLoadedSet == [loaded |-> FALSE, val |-> {}]

DefaultProgress ==
    [phase |-> "search", completed_searches_count |-> 0, completed_details |-> 0,
     total_links_found |-> 0, total_restaurants_saved |-> 0]

\* the file is read on every call
GetFromFileMut(cache, file) == file

\* get_pending_links: the cache, loaded from the file on first use
get_pending_links(cache, file) == IF cache.loaded THEN cache.val ELSE file

get_next_batch(pending, n) == Prefix(pending, n)

\* a removal by position: the batch prefix only
RemovePrefixMut(pending, links) == SubSeq(pending, Len(links) + 1, Len(pending))

\* only the first link of the batch is removed
RemoveFirstOnlyMut(pending, links) ==
    SelectSeq(pending, LAMBDA l : links = <<>> \/ l # Head(links))

remove_processed_links(pending, links) ==
    SelectSeq(pending, LAMBDA l : l \notin Range(links))

\* add_pending_links: the lists list(existing) + new_links can be
NewLinks(pending, links) == SelectSeq(links, LAMBDA l : l \notin Range(pending))

add_pending_links(pending, links) ==
    IF NewLinks(pending, links) = <<>> THEN {pending}
    ELSE {p \o NewLinks(pending, links) : p \in Perms(Range(pending))}

get_remaining_searches(completed, all_queries) ==
    SelectSeq(all_queries, LAMBDA q : q \notin completed)

LinkItem(link) == [kind |-> "link", query |-> "", link |-> link]
QueryItem(q) == [kind |-> "query", query |-> q, link |-> <<>>]

record_failure(log, item, error) == Append(log, [item |-> item, error |-> error])

\* one entry for the whole batch instead of one per item
RecordOneFailureMut(log, items, error) ==
    IF items = <<>> THEN log ELSE record_failure(log, Head(items), error)

RECURSIVE record_failures(_, _, _)
record_failures(log, items, error) ==
    IF items = <<>> THEN log
    ELSE record_failures(record_failure(log, Head(items), error), Tail(items), error)

(***************************************************************************)
(* State                                                                   *)
(***************************************************************************)
VARIABLES
    \* persisted artifacts (survive a kill)
    completed_searches_file,   \* completed_searches.json: set of query texts
    pending_links_file,        \* pending_links.json: list of links
    failed_items_file,         \* failed_items.json: list of [item, error]
    progress_file,             \* progress.json
    seen_places_file,          \* seen_places.json: [ids, hashes]
    final_json,                \* output/all_restaurants.json: list of records
    batch_files,               \* output/restaurants_batch_<num>.json: set of [num, recs]
    \* the process: managers' caches and the phases' locals
    pc,
    completed_searches,        \* CheckpointManager._completed_searches
    pending_links,             \* CheckpointManager._pending_links
    dedup,                     \* DeduplicationManager.seen_place_ids / seen_hashes
    all_restaurants,
    consecutive_empty_batches,
    batch_num,
    batch,
    results,
    unique_results,
    progress,
    remaining,
    i,
    pending_queries,
    search_results,
    batch_links,
    failures,                  \* run_retry_phase: the FailureLog as read at the start
    retry_queries,             \* run_retry_phase: queries, the items to retry
    retried_queries,           \* run_retry_phase: the items retried so far
    pos,                       \* run_retry_phase: position in the current batch
    \* inputs of the run
    phase,                     \* which phase function the process runs
    queries,
    batch_size,
    file_state,                \* of each persisted file: ok, missing or corrupt
    options,                   \* run_scraper: [mode, dry_run]
    \* the recovery programs (recovery_search.py, rescrape_rejected.py)
    recovery_files,            \* checkpoints_recovery/ and output/recovery_restaurants.json
    recovery,                  \* recovery_search: locals completed, pending_links
    rescrape_files,            \* rescrape_done.json and output/rescrape_restaurants.json
    rescrape,                  \* rescrape_places: locals urls, done_ids, the counter
    peer,                      \* a second CheckpointManager on the directory, and who wrote last
    run,                       \* number of the current run of the phase
    \* history, read by the properties only
    g_initial,                 \* PendingQueue when the current phase run started
    g_before,                  \* PendingQueue when the current batch was taken
    g_trace,                   \* outcome of each batch attempted in the current run
    g_batched,                 \* links put in a batch in the current run
    g_fetched,                 \* unique records fetched so far: [run, n, link, rec]
    g_kill,                    \* [killed, run, pending]: the last kill, if any
    g_start,                   \* the persisted state when the current run started
    g_prev,                    \* the previous run: [trace, completed, pending, clean]
    g_index                    \* the index before the last call on it

diskVars == <<completed_searches_file, pending_links_file, failed_items_file,
              progress_file, seen_places_file, final_json, batch_files>>

detailLocals == <<all_restaurants, consecutive_empty_batches, batch_num, batch,
                  results, unique_results, progress>>

searchLocals == <<remaining, i, pending_queries, search_results, batch_links>>

retryLocals == <<failures, retry_queries, retried_queries, pos>>

\* recovery_search.py lines 34-41: the recovery namespace, its files missing
NoRecoveryFiles == [completed |-> {}, pending |-> <<>>, output |-> <<>>, progress |-> <<>>]

NoRecoveryLocals == [completed |-> {}, links |-> {}, pending_links |-> <<>>]

\* rescrape_rejected.py lines 33-35: rescrape_done.json and rescrape_restaurants.json
NoRescrapeFiles == [done |-> {}, output |-> <<>>]

NoRescrapeLocals == [urls |-> <<>>, done_ids |-> {}, consecutive_bad_batches |-> 0]

\* no second CheckpointManager; nobody has written pending_links.json yet
NoPeer == [pending_links |-> [loaded |-> FALSE, val |-> <<>>], writer |-> "none"]

\* run_scraper's defaults: production mode, no dry run, no phase skipped
NoOptions == [mode |-> "production", dry_run |-> FALSE, skip_search |-> FALSE,
              skip_details |-> FALSE]

\* the main scraper runs in production mode and the recovery programs do not run
NoVariant ==
    /\ options = NoOptions
    /\ recovery_files = NoRecoveryFiles
    /\ recovery = NoRecoveryLocals
    /\ rescrape_files = NoRescrapeFiles
    /\ rescrape = NoRescrapeLocals
    /\ peer = NoPeer

variantVars == <<recovery_files, recovery, rescrape_files, rescrape, peer>>

\* the inputs of a run, and the state no phase of the main scraper touches
inputVars == <<phase, queries, batch_size, file_state, options, variantVars>>

ghostVars == <<g_initial, g_before, g_trace, g_batched, g_fetched, g_kill, g_start,
               g_prev>>

vars == <<diskVars, pc, completed_searches, pending_links, dedup, detailLocals,
          searchLocals, retryLocals, inputVars, run, ghostVars, g_index>>

\* scraper.py: MAX_CONSECUTIVE_EMPTY
MAX_CONSECUTIVE_EMPTY == 5

PendingQueue == get_pending_links(pending_links, pending_links_file)

Snapshot ==
    [completed |-> completed_searches_file, pending |-> pending_links_file,
     failures |-> failed_items_file, final |-> final_json, seen |-> seen_places_file]

\* a process start: CheckpointManager() and DeduplicationManager(), which loads
FreshProcess(startpc) ==
    /\ pc = startpc
    /\ completed_searches = NotLoadedSet
    /\ pending_links = NotLoaded
    /\ dedup = seen_places_file
    /\ all_restaurants = <<>>
    /\ consecutive_empty_batches = 0
    /\ batch_num = 0
    /\ batch = <<>>
    /\ results = <<>>
    /\ unique_results = <<>>
    /\ progress = DefaultProgress
    /\ remaining = <<>>
    /\ i = 0
    /\ pending_queries = <<>>
    /\ search_results = <<>>
    /\ batch_links = <<>>
    /\ failures = <<>>
    /\ retry_queries = <<>>
    /\ retried_queries = <<>>
    /\ pos = 0

StartPc == IF phase = "search" THEN "s_start" ELSE "d_start"

\* the same, as the step that starts a new process
NewProcess ==
    /\ pc' = StartPc
    /\ completed_searches' = NotLoadedSet
    /\ pending_links' = NotLoaded
    /\ dedup' = seen_places_file
    /\ all_restaurants' = <<>>
    /\ consecutive_empty_batches' = 0
    /\ batch_num' = 0
    /\ batch' = <<>>
    /\ results' = <<>>
    /\ unique_results' = <<>>
    /\ progress' = DefaultProgress
    /\ remaining' = <<>>
    /\ i' = 0
    /\ pending_queries' = <<>>
    /\ search_results' = <<>>
    /\ batch_links' = <<>>
    /\ failures' = <<>>
    /\ retry_queries' = <<>>
    /\ retried_queries' = <<>>
    /\ pos' = 0

(***************************************************************************)
(* run_details_phase (scraper.py)                                          *)
(***************************************************************************)
ExistingBatchNum == IF batch_files = {} THEN 0 ELSE MaxOf({f.num : f \in batch_files})

\* lines 135-171: the early return, the load of the existing results
DetailsStart ==
    /\ pc = "d_start"
    /\ pending_links' = [loaded |-> TRUE, val |-> PendingQueue]
    /\ g_initial' = PendingQueue
    /\ g_trace' = <<>>
    /\ g_batched' = {}
    /\ g_start' = Snapshot
    /\ IF Len(PendingQueue) = 0
       THEN /\ pc' = "done"
            /\ UNCHANGED <<dedup, all_restaurants, batch_num, progress,
                           consecutive_empty_batches>>
       ELSE /\ pc' = "d_loop"
            /\ all_restaurants' = final_json
            /\ dedup' = mark_all_seen(dedup, final_json)
            /\ batch_num' = ExistingBatchNum
            /\ progress' = progress_file
            /\ consecutive_empty_batches' = 0
    /\ UNCHANGED <<diskVars, completed_searches, batch, results, unique_results,
                   searchLocals, inputVars, retryLocals, g_index, run, g_before, g_fetched, g_kill, g_prev>>

\* the batches of one run of the phase that are followed
MaxAttempts == MaxQueue + 1

\* checkpoint.py lines 152-157: the file and the cache take the new list, or, when
\* open(..., "w") raises IOError, both keep the list they had
written_pending(old, new) ==
    IF file_state["pending_links"] = "unwritable" THEN old ELSE new

\* lines 174-180
DetailsNextBatch ==
    /\ pc = "d_loop"
    /\ Len(g_trace) < MaxAttempts
    /\ batch' = get_next_batch(PendingQueue, batch_size)
    /\ g_before' = PendingQueue
    /\ g_batched' = g_batched \cup Range(batch')
    /\ IF batch' = <<>>
       THEN pc' = "d_final" /\ UNCHANGED batch_num
       ELSE pc' = "d_exec" /\ batch_num' = batch_num + 1
    /\ UNCHANGED <<diskVars, completed_searches, pending_links, dedup, all_restaurants,
                   consecutive_empty_batches, results, unique_results, progress,
                   searchLocals, inputVars, retryLocals, g_index, run, g_initial, g_trace, g_fetched,
                   g_kill, g_start, g_prev>>

\* scrape_place_details for one link: None (<<>>) or one record
SlotChoices(link) ==
    {<<>>} \cup {<<[place_id |-> extract_place_id(link), name |-> pg.name,
                    address |-> pg.address]>> : pg \in Pages}

RECURSIVE Flatten(_)
Flatten(slots) == IF slots = <<>> THEN <<>> ELSE Head(slots) \o Flatten(Tail(slots))

OutcomeTag(res, uniq) ==
    IF res = <<>> THEN "empty" ELSE IF uniq = <<>> THEN "dups" ELSE "saved"

\* lines 183-187: scrape_places returns, filter_unique, extend
DetailsExecReturn ==
    /\ pc = "d_exec"
    /\ \E slots \in [1..Len(batch) -> UNION {SlotChoices(batch[k]) : k \in 1..Len(batch)}] :
          /\ \A k \in 1..Len(batch) : slots[k] \in SlotChoices(batch[k])
          /\ LET res == Flatten(slots)
                 fu == filter_unique(dedup, res)
             IN  /\ results' = res
                 /\ unique_results' = fu.unique
                 /\ dedup' = fu.index
                 /\ all_restaurants' = all_restaurants \o fu.unique
                 /\ g_trace' = Append(g_trace, OutcomeTag(res, fu.unique))
                 /\ g_fetched' = g_fetched \cup
                        {[run |-> run, n |-> Len(g_trace) + 1, link |-> batch[k],
                          rec |-> slots[k][1]] :
                            k \in {j \in 1..Len(batch) :
                                     slots[j] # <<>> /\ slots[j][1] \in Range(fu.unique)}}
    /\ pc' = "d_batchfile"
    /\ UNCHANGED <<diskVars, completed_searches, pending_links, consecutive_empty_batches,
                   batch_num, batch, progress, searchLocals, inputVars, retryLocals, g_index, run, g_initial,
                   g_before, g_batched, g_kill, g_start, g_prev>>

\* line 183 raises: control goes to the except clause
\* the exception leaves the phase function
PropagateMut(handler) == "raised"

\* "except Exception" around the executor call: control goes to the handler
caught(handler) == handler

DetailsExecRaise ==
    /\ pc = "d_exec"
    /\ pc' = caught("d_except")
    /\ g_trace' = Append(g_trace, "raise")
    /\ UNCHANGED <<diskVars, completed_searches, pending_links, dedup, detailLocals,
                   searchLocals, inputVars, retryLocals, g_index, run, g_initial, g_before, g_batched,
                   g_fetched, g_kill, g_start, g_prev>>

\* lines 189-190
DetailsWriteBatchFile ==
    /\ pc = "d_batchfile"
    /\ batch_files' = IF unique_results # <<>>
                      THEN {f \in batch_files : f.num # batch_num}
                               \cup {[num |-> batch_num, recs |-> unique_results]}
                      ELSE batch_files
    /\ pc' = "d_count"
    /\ UNCHANGED <<completed_searches_file, pending_links_file, failed_items_file,
                   progress_file, seen_places_file, final_json, completed_searches,
                   pending_links, dedup, detailLocals, searchLocals, inputVars, retryLocals, g_index, run,
                   ghostVars>>

\* lines 195-209: the counter after a batch the executor returned from
NextConsecutiveMut(count, res, b) ==
    IF Len(res) = 0 /\ Len(b) > 0 THEN count + 1 ELSE count

next_consecutive(count, res, b) ==
    IF Len(res) = 0 /\ Len(b) > 0 THEN count + 1 ELSE 0

HaltsMut(count, res, b) == FALSE

halts(count, res, b) ==
    Len(res) = 0 /\ Len(b) > 0 /\ next_consecutive(count, res, b) >= MAX_CONSECUTIVE_EMPTY

\* lines 195-211: the counter, then remove_processed_links on either path
DetailsCount ==
    /\ pc = "d_count"
    /\ consecutive_empty_batches' = next_consecutive(consecutive_empty_batches, results, batch)
    /\ pending_links_file' =
           written_pending(pending_links_file, remove_processed_links(PendingQueue, batch))
    /\ pending_links' =
           [loaded |-> TRUE,
            val |-> written_pending(PendingQueue, remove_processed_links(PendingQueue, batch))]
    /\ pc' = IF halts(consecutive_empty_batches, results, batch) THEN "d_haltsave" ELSE "d_save"
    /\ UNCHANGED <<completed_searches_file, failed_items_file, progress_file,
                   seen_places_file, final_json, batch_files, completed_searches, dedup,
                   all_restaurants, batch_num, batch, results, unique_results, progress,
                   searchLocals, inputVars, retryLocals, g_index, run, ghostVars>>

BatchProgress ==
    [progress EXCEPT !.completed_details = @ + Len(batch),
                     !.total_restaurants_saved = Len(all_restaurants)]

\* lines 204-207: save_progress, then break
DetailsHaltSave ==
    /\ pc = "d_haltsave"
    /\ progress' = BatchProgress
    /\ progress_file' = progress'
    /\ pc' = "d_final"
    /\ UNCHANGED <<completed_searches_file, pending_links_file, failed_items_file,
                   seen_places_file, final_json, batch_files, completed_searches,
                   pending_links, dedup, all_restaurants, consecutive_empty_batches,
                   batch_num, batch, results, unique_results, searchLocals, inputVars, retryLocals, g_index,
                   run, ghostVars>>

\* lines 213-215
DetailsSaveProgress ==
    /\ pc = "d_save"
    /\ progress' = BatchProgress
    /\ progress_file' = progress'
    /\ pc' = "d_dedup"
    /\ UNCHANGED <<completed_searches_file, pending_links_file, failed_items_file,
                   seen_places_file, final_json, batch_files, completed_searches,
                   pending_links, dedup, all_restaurants, consecutive_empty_batches,
                   batch_num, batch, results, unique_results, searchLocals, inputVars, retryLocals, g_index,
                   run, ghostVars>>

\* line 216, then lines 224-228 (the delay changes nothing)
DetailsDedupSave ==
    /\ pc = "d_dedup"
    /\ seen_places_file' = dedup
    /\ pc' = "d_loop"
    /\ UNCHANGED <<completed_searches_file, pending_links_file, failed_items_file,
                   progress_file, final_json, batch_files, completed_searches,
                   pending_links, dedup, detailLocals, searchLocals, inputVars, retryLocals, g_index, run,
                   ghostVars>>

RECURSIVE LinkItems(_)
LinkItems(links) ==
    IF links = <<>> THEN <<>> ELSE <<LinkItem(Head(links))>> \o LinkItems(Tail(links))

\* lines 218-221: one record_failure per link of the batch
DetailsExcept ==
    /\ pc = "d_except"
    /\ failed_items_file' = record_failures(failed_items_file, LinkItems(batch), "error")
    /\ pc' = "d_exceptremove"
    /\ UNCHANGED <<completed_searches_file, pending_links_file, progress_file,
                   seen_places_file, final_json, batch_files, completed_searches,
                   pending_links, dedup, detailLocals, searchLocals, inputVars, retryLocals, g_index, run,
                   ghostVars>>

\* line 222, then lines 224-228
DetailsExceptRemove ==
    /\ pc = "d_exceptremove"
    /\ pending_links_file' =
           written_pending(pending_links_file, remove_processed_links(PendingQueue, batch))
    /\ pending_links' =
           [loaded |-> TRUE,
            val |-> written_pending(PendingQueue, remove_processed_links(PendingQueue, batch))]
    /\ pc' = "d_loop"
    /\ UNCHANGED <<completed_searches_file, failed_items_file, progress_file,
                   seen_places_file, final_json, batch_files, completed_searches, dedup,
                   detailLocals, searchLocals, inputVars, retryLocals, g_index, run, ghostVars>>

\* lines 230-234: the canonical collection is written when the loop is over
DetailsFinal ==
    /\ pc = "d_final"
    /\ final_json' = IF all_restaurants # <<>> THEN all_restaurants ELSE final_json
    /\ pc' = "done"
    /\ UNCHANGED <<completed_searches_file, pending_links_file, failed_items_file,
                   progress_file, seen_places_file, batch_files, completed_searches,
                   pending_links, dedup, detailLocals, searchLocals, inputVars, retryLocals, g_index, run,
                   ghostVars>>

(***************************************************************************)
(* run_search_phase (scraper.py)                                           *)
(***************************************************************************)
\* _completed_searches, loaded from the file on first use
CompletedSearches ==
    IF completed_searches.loaded THEN completed_searches.val ELSE completed_searches_file

Last(s) == s[Len(s)]

\* lines 41-55
SearchStart ==
    /\ pc = "s_start"
    /\ completed_searches' = [loaded |-> TRUE, val |-> CompletedSearches]
    /\ remaining' = get_remaining_searches(CompletedSearches, queries)
    /\ i' = 0
    /\ pc' = IF remaining' = <<>> THEN "done" ELSE "s_loop"
    /\ g_trace' = <<>>
    /\ g_start' = Snapshot
    /\ UNCHANGED <<diskVars, pending_links, dedup, detailLocals, pending_queries,
                   search_results, batch_links, inputVars, retryLocals, g_index, run, g_initial, g_before,
                   g_batched, g_fetched, g_kill, g_prev>>

\* remaining[i : i + batch_size]
BatchAt(rem, k, n) == SubSeq(rem, k + 1, Min(k + n, Len(rem)))

\* lines 57-69 and 110: the next batch, without its completed queries
SearchLoop ==
    /\ pc = "s_loop"
    /\ IF i >= Len(remaining)
       THEN pc' = "done" /\ UNCHANGED <<i, pending_queries>>
       ELSE /\ pending_queries' = SelectSeq(BatchAt(remaining, i, batch_size),
                                            LAMBDA q : q \notin CompletedSearches)
            /\ IF pending_queries' = <<>>
               THEN pc' = "s_loop" /\ i' = i + batch_size
               ELSE pc' = "s_exec" /\ UNCHANGED i
    /\ UNCHANGED <<diskVars, completed_searches, pending_links, dedup, detailLocals,
                   remaining, search_results, batch_links, inputVars, retryLocals, g_index, run, ghostVars>>

\* what scrape_search_results can return for one query
LinkLists == {<<>>, <<Link(1), Link(2), LinkRaw, LinkData1>>}

SearchOutcomes(q) ==
    {[query |-> q, place_links |-> ll, error |-> FALSE] : ll \in LinkLists}
    \cup {[query |-> q, place_links |-> <<>>, error |-> TRUE]}

TraceEntry(outcome, res) ==
    [qs |-> pending_queries, outcome |-> outcome, results |-> res,
     log |-> failed_items_file, pending |-> pending_links_file]

\* line 73 returns: one result per submitted query
SearchExecReturn ==
    /\ pc = "s_exec"
    /\ \E res \in [1..Len(pending_queries) ->
                      UNION {SearchOutcomes(q) : q \in Range(pending_queries)}] :
          /\ \A k \in 1..Len(pending_queries) : res[k].query = pending_queries[k]
          /\ search_results' = res
          /\ g_trace' = Append(g_trace, TraceEntry("ret", res))
    /\ pc' = "s_merge"
    /\ UNCHANGED <<diskVars, completed_searches, pending_links, dedup, detailLocals,
                   remaining, i, pending_queries, batch_links, inputVars, retryLocals, g_index, run,
                   g_initial, g_before, g_batched, g_fetched, g_kill, g_start, g_prev>>

\* the executor's None in a result slot
NullSlot == [null |-> TRUE]

NullSlots(res) == {k \in 1..Len(res) : res[k] = NullSlot}

\* line 73 returns a list with None in a slot
SearchExecReturnNull ==
    /\ pc = "s_exec"
    /\ \E res \in [1..Len(pending_queries) ->
                      {NullSlot} \cup UNION {SearchOutcomes(q) : q \in Range(pending_queries)}] :
          /\ NullSlots(res) # {}
          /\ \A k \in 1..Len(pending_queries) :
                IF res[k] = NullSlot THEN TRUE ELSE res[k].query = pending_queries[k]
          /\ search_results' = res
          /\ g_trace' = Append(g_trace, TraceEntry("ret", res))
    /\ pc' = "s_merge"
    /\ UNCHANGED <<diskVars, completed_searches, pending_links, dedup, detailLocals,
                   remaining, i, pending_queries, batch_links, inputVars, retryLocals, g_index, run,
                   g_initial, g_before, g_batched, g_fetched, g_kill, g_start, g_prev>>

\* line 73 raises
SearchExecRaise ==
    /\ pc = "s_exec"
    /\ pc' = caught("s_except")
    /\ g_trace' = Append(g_trace, TraceEntry("raise", <<>>))
    /\ UNCHANGED <<diskVars, completed_searches, pending_links, dedup, detailLocals,
                   searchLocals, inputVars, retryLocals, g_index, run, g_initial, g_before, g_batched,
                   g_fetched, g_kill, g_start, g_prev>>

RECURSIVE QueryItems(_)
QueryItems(qs) ==
    IF qs = <<>> THEN <<>> ELSE <<QueryItem(Head(qs))>> \o QueryItems(Tail(qs))

\* lines 74-78: one record_failure per query, then the next batch
SearchExcept ==
    /\ pc = "s_except"
    /\ failed_items_file' =
           record_failures(failed_items_file, QueryItems(pending_queries), "error")
    /\ i' = i + batch_size
    /\ pc' = "s_loop"
    /\ UNCHANGED <<completed_searches_file, pending_links_file, progress_file,
                   seen_places_file, final_json, batch_files, completed_searches,
                   pending_links, dedup, detailLocals, remaining, pending_queries,
                   search_results, batch_links, inputVars, retryLocals, g_index, run, ghostVars>>

\* lines 84-87: the links one result adds to batch_links
ResultLinks(d, r) ==
    IF r.place_links # <<>> THEN filter_unseen_links(d, r.place_links) ELSE <<>>

RECURSIVE BatchLinks(_, _)
BatchLinks(d, res) ==
    IF res = <<>> THEN <<>> ELSE ResultLinks(d, Head(res)) \o BatchLinks(d, Tail(res))

\* only the queries that found links are marked
MarkWithLinksMut(completed, res) ==
    completed \cup {res[k].query : k \in {j \in 1..Len(res) : res[j].place_links # <<>>}}

\* only the queries whose result carries no error are marked
MarkNoErrorMut(completed, res) ==
    completed \cup {res[k].query : k \in {j \in 1..Len(res) : ~res[j].error}}

\* no query is marked
MarkNothingMut(completed, res) == completed

\* line 93, for every result: mark_search_completed
mark_results_completed(completed, res) ==
    completed \cup {res[k].query : k \in 1..Len(res)}

\* the results the loop of lines 80-93 gets through: line 81 calls result.get on
\* every slot before the test of line 83, and raises AttributeError on a None
BeforeNull(res) ==
    IF NullSlots(res) = {} THEN res ELSE SubSeq(res, 1, MinOf(NullSlots(res)) - 1)

\* lines 80-93
SearchMerge ==
    /\ pc = "s_merge"
    /\ batch_links' = BatchLinks(dedup, BeforeNull(search_results))
    /\ completed_searches' =
           [loaded |-> TRUE,
            val |-> mark_results_completed(CompletedSearches, BeforeNull(search_results))]
    /\ pc' = IF NullSlots(search_results) = {} THEN "s_addlinks" ELSE "raised"
    /\ UNCHANGED <<diskVars, pending_links, dedup, detailLocals, remaining, i,
                   pending_queries, search_results, inputVars, retryLocals, g_index, run, ghostVars>>

\* lines 95-97
SearchAddLinks ==
    /\ pc = "s_addlinks"
    /\ IF batch_links # <<>>
       THEN \E combined \in add_pending_links(PendingQueue, batch_links) :
               /\ pending_links_file' =
                      IF NewLinks(PendingQueue, batch_links) # <<>>
                      THEN combined ELSE pending_links_file
               /\ pending_links' = [loaded |-> TRUE, val |-> combined]
       ELSE UNCHANGED <<pending_links_file, pending_links>>
    /\ pc' = "s_progress"
    /\ UNCHANGED <<completed_searches_file, failed_items_file, progress_file,
                   seen_places_file, final_json, batch_files, completed_searches, dedup,
                   detailLocals, searchLocals, inputVars, retryLocals, g_index, run, ghostVars>>

\* lines 99-102
SearchSaveProgress ==
    /\ pc = "s_progress"
    /\ progress_file' =
           [progress_file EXCEPT
               !.completed_searches_count = Cardinality(CompletedSearches),
               !.total_links_found = Len(PendingQueue)]
    /\ pending_links' = [loaded |-> TRUE, val |-> PendingQueue]
    /\ pc' = "s_saveall"
    /\ UNCHANGED <<completed_searches_file, pending_links_file, failed_items_file,
                   seen_places_file, final_json, batch_files, completed_searches, dedup,
                   detailLocals, searchLocals, inputVars, retryLocals, g_index, run, ghostVars>>

\* line 103: save_all writes completed_searches.json
SearchSaveAll ==
    /\ pc = "s_saveall"
    /\ completed_searches_file' = CompletedSearches
    /\ pc' = "s_dedup"
    /\ UNCHANGED <<pending_links_file, failed_items_file, progress_file,
                   seen_places_file, final_json, batch_files, completed_searches,
                   pending_links, dedup, detailLocals, searchLocals, inputVars, retryLocals, g_index, run,
                   ghostVars>>

\* line 104, then lines 106-108 (the delay changes nothing)
SearchDedupSave ==
    /\ pc = "s_dedup"
    /\ seen_places_file' = dedup
    /\ i' = i + batch_size
    /\ pc' = "s_loop"
    /\ UNCHANGED <<completed_searches_file, pending_links_file, failed_items_file,
                   progress_file, final_json, batch_files, completed_searches,
                   pending_links, dedup, detailLocals, remaining, pending_queries,
                   search_results, batch_links, inputVars, retryLocals, g_index, run, ghostVars>>

(***************************************************************************)
(* run_retry_phase (scraper.py)                                            *)
(***************************************************************************)
\* isinstance(item, dict) and "query" in item: a link item is a string
IsQueryItem(item) == item.kind = "query"

RECURSIVE ItemsOf(_)
ItemsOf(entries) ==
    IF entries = <<>> THEN <<>> ELSE <<Head(entries).item>> \o ItemsOf(Tail(entries))

\* the items of all the failures, link items included
AllItemsMut(log) == ItemsOf(log)

\* lines 264 and 278: the items of the search failures
search_failure_items(log) == ItemsOf(SelectSeq(log, LAMBDA f : IsQueryItem(f.item)))

\* every entry is kept
KeepAllMut(log, retried) == log

\* every query entry is dropped
DropQueriesMut(log, retried) == SelectSeq(log, LAMBDA f : ~IsQueryItem(f.item))

\* lines 332-335: the entries whose item is not among the retried ones
remaining_failures(log, retried) == SelectSeq(log, LAMBDA f : f.item \notin Range(retried))

detailRest == <<all_restaurants, consecutive_empty_batches, batch_num, results,
                unique_results, progress>>

searchRest == <<remaining, pending_queries, search_results>>

ghostRest == <<g_initial, g_before, g_batched, g_fetched, g_kill, g_prev, g_index>>

\* lines 262-279
RetryStart ==
    /\ pc = "r_start"
    /\ failures' = failed_items_file
    /\ retry_queries' = search_failure_items(failed_items_file)
    /\ retried_queries' = <<>>
    /\ i' = 0
    /\ pc' = IF retry_queries' = <<>> THEN "done" ELSE "r_loop"
    /\ g_trace' = <<>>
    /\ g_start' = Snapshot
    /\ UNCHANGED <<diskVars, completed_searches, pending_links, dedup, detailLocals,
                   searchRest, batch_links, pos, inputVars, run, ghostRest>>

\* lines 281-288, and the end of the loop
RetryLoop ==
    /\ pc = "r_loop"
    /\ IF i >= Len(retry_queries)
       THEN pc' = "r_rewrite" /\ UNCHANGED <<batch, batch_links, pos>>
       ELSE /\ batch' = BatchAt(retry_queries, i, batch_size)
            /\ batch_links' = <<>>
            /\ pos' = 0
            /\ pc' = "r_query"
    /\ UNCHANGED <<diskVars, completed_searches, pending_links, dedup, detailRest,
                   searchRest, i, failures, retry_queries, retried_queries, inputVars,
                   run, ghostVars, g_index>>

RetryEntry(item, outcome, res) == [item |-> item, outcome |-> outcome, results |-> res]

\* lines 292-295: the query is completed already
RetrySkip ==
    /\ pc = "r_query"
    /\ pos < Len(batch)
    /\ batch[pos + 1].query \in CompletedSearches
    /\ completed_searches' = [loaded |-> TRUE, val |-> CompletedSearches]
    /\ retried_queries' = Append(retried_queries, batch[pos + 1])
    /\ pos' = pos + 1
    /\ g_trace' = Append(g_trace, RetryEntry(batch[pos + 1], "skip", <<>>))
    /\ UNCHANGED <<diskVars, pc, pending_links, dedup, detailLocals, searchLocals,
                   failures, retry_queries, inputVars, run, g_start, ghostRest>>

\* lines 297-310: scrape_search_results returns
RetryExecReturn ==
    /\ pc = "r_query"
    /\ pos < Len(batch)
    /\ batch[pos + 1].query \notin CompletedSearches
    /\ \E r \in SearchOutcomes(batch[pos + 1].query) :
          /\ batch_links' = batch_links \o ResultLinks(dedup, r)
          /\ g_trace' = Append(g_trace, RetryEntry(batch[pos + 1], "ret", <<r>>))
    /\ completed_searches' =
           [loaded |-> TRUE, val |-> CompletedSearches \cup {batch[pos + 1].query}]
    /\ retried_queries' = Append(retried_queries, batch[pos + 1])
    /\ pos' = pos + 1
    /\ UNCHANGED <<diskVars, pc, pending_links, dedup, detailLocals, searchRest, i,
                   failures, retry_queries, inputVars, run, g_start, ghostRest>>

\* lines 297-298 and 312-313: scrape_search_results raises
RetryExecRaise ==
    /\ pc = "r_query"
    /\ pos < Len(batch)
    /\ batch[pos + 1].query \notin CompletedSearches
    /\ completed_searches' = [loaded |-> TRUE, val |-> CompletedSearches]
    /\ pos' = pos + 1
    /\ pc' = caught("r_query")
    /\ g_trace' = Append(g_trace, RetryEntry(batch[pos + 1], "raise", <<>>))
    /\ UNCHANGED <<diskVars, pending_links, dedup, detailLocals, searchLocals,
                   failures, retry_queries, retried_queries, inputVars, run, g_start,
                   ghostRest>>

\* lines 315-317
RetryAddLinks ==
    /\ pc = "r_query"
    /\ pos >= Len(batch)
    /\ IF batch_links # <<>>
       THEN \E combined \in add_pending_links(PendingQueue, batch_links) :
               /\ pending_links_file' =
                      IF NewLinks(PendingQueue, batch_links) # <<>>
                      THEN combined ELSE pending_links_file
               /\ pending_links' = [loaded |-> TRUE, val |-> combined]
       ELSE UNCHANGED <<pending_links_file, pending_links>>
    /\ pc' = "r_progress"
    /\ UNCHANGED <<completed_searches_file, failed_items_file, progress_file,
                   seen_places_file, final_json, batch_files, completed_searches, dedup,
                   detailLocals, searchLocals, retryLocals, inputVars, run, ghostVars,
                   g_index>>

\* lines 319-322
RetrySaveProgress ==
    /\ pc = "r_progress"
    /\ progress_file' =
           [progress_file EXCEPT
               !.completed_searches_count = Cardinality(CompletedSearches),
               !.total_links_found = Len(PendingQueue)]
    /\ completed_searches' = [loaded |-> TRUE, val |-> CompletedSearches]
    /\ pending_links' = [loaded |-> TRUE, val |-> PendingQueue]
    /\ pc' = "r_saveall"
    /\ UNCHANGED <<completed_searches_file, pending_links_file, failed_items_file,
                   seen_places_file, final_json, batch_files, dedup, detailLocals,
                   searchLocals, retryLocals, inputVars, run, ghostVars, g_index>>

\* line 323: save_all writes completed_searches.json
RetrySaveAll ==
    /\ pc = "r_saveall"
    /\ completed_searches_file' = CompletedSearches
    /\ pc' = "r_dedup"
    /\ UNCHANGED <<pending_links_file, failed_items_file, progress_file,
                   seen_places_file, final_json, batch_files, completed_searches,
                   pending_links, dedup, detailLocals, searchLocals, retryLocals,
                   inputVars, run, ghostVars, g_index>>

\* line 324, then lines 326-328 (the delay changes nothing)
RetryDedupSave ==
    /\ pc = "r_dedup"
    /\ seen_places_file' = dedup
    /\ i' = i + batch_size
    /\ pc' = "r_loop"
    /\ UNCHANGED <<completed_searches_file, pending_links_file, failed_items_file,
                   progress_file, final_json, batch_files, completed_searches,
                   pending_links, dedup, detailLocals, searchRest, batch_links,
                   retryLocals, inputVars, run, ghostVars, g_index>>

\* lines 331-337: the FailureLog is rewritten from the list read at the start
RetryRewrite ==
    /\ pc = "r_rewrite"
    /\ failed_items_file' =
           IF retried_queries # <<>>
           THEN remaining_failures(failures, retried_queries)
           ELSE failed_items_file
    /\ pc' = "done"
    /\ UNCHANGED <<completed_searches_file, pending_links_file, progress_file,
                   seen_places_file, final_json, batch_files, completed_searches,
                   pending_links, dedup, detailLocals, searchLocals, retryLocals,
                   inputVars, run, ghostVars, g_index>>

(***************************************************************************)
(* The process is killed, or has returned, and the phase is run again      *)
(***************************************************************************)
PrevRun ==
    [trace |-> g_trace, completed |-> completed_searches_file,
     pending |-> pending_links_file, clean |-> pc = "done"]

\* the process is killed at any point of a phase and started again
Kill ==
    /\ pc \notin {"done", "s_start", "d_start"}
    /\ run < MaxRuns
    /\ run' = run + 1
    /\ g_kill' = [killed |-> TRUE, run |-> run, pending |-> Range(pending_links_file)]
    /\ g_prev' = PrevRun
    /\ UNCHANGED <<diskVars, inputVars, g_index, g_initial, g_before, g_trace, g_batched,
                   g_fetched, g_start>>
    /\ NewProcess

\* the phase has returned; a new process runs it again
Rerun ==
    /\ pc = "done"
    /\ run < MaxRuns
    /\ run' = run + 1
    /\ g_prev' = PrevRun
    /\ UNCHANGED <<diskVars, inputVars, g_index, g_initial, g_before, g_trace, g_batched,
                   g_fetched, g_kill, g_start>>
    /\ NewProcess

\* the phase has returned; the same process calls it again
SearchAgain ==
    /\ pc = "done"
    /\ phase = "search"
    /\ run < MaxRuns
    /\ run' = run + 1
    /\ g_prev' = PrevRun
    /\ pc' = "s_start"
    /\ UNCHANGED <<diskVars, completed_searches, pending_links, dedup, detailLocals,
                   searchLocals, inputVars, retryLocals, g_index, g_initial, g_before, g_trace, g_batched,
                   g_fetched, g_kill, g_start>>

(***************************************************************************)
(* Details Phase specification: a pending queue left by earlier runs       *)
(***************************************************************************)
\* <<Link(1), ..., Link(n)>>
BaseQueue(n) == [k \in 1..n |-> Link(k)]

\* the queues tried: distinct links, or one link enqueued twice
DetailQueues(m) ==
    {BaseQueue(n) : n \in 0..m}
    \cup {[BaseQueue(t[3]) EXCEPT ![t[2]] = Link(t[1])] :
            t \in {u \in (1..m) \X (1..m) \X (1..m) : u[1] < u[2] /\ u[2] <= u[3]}}

\* a record saved by an earlier run, of a place no queued link leads to
OldRecord == [place_id |-> HexPairs[Len(HexPairs)], name |-> NameJoe, address |-> AddrMain]

InitGhost ==
    /\ g_initial = <<>>
    /\ g_before = <<>>
    /\ g_trace = <<>>
    /\ g_batched = {}
    /\ g_fetched = {}
    /\ g_kill = [killed |-> FALSE, run |-> 0, pending |-> {}]
    /\ g_start = Snapshot
    /\ g_prev = [trace |-> <<>>, completed |-> {}, pending |-> <<>>, clean |-> FALSE]
    /\ g_index = EmptyIndex

InitDetailsWith(queues, sizes) ==
    /\ phase = "details"
    /\ queries = <<>>
    /\ batch_size \in sizes
    /\ run = 1
    /\ completed_searches_file = {}
    /\ pending_links_file \in queues
    /\ failed_items_file = <<>>
    /\ progress_file = DefaultProgress
    /\ final_json \in {<<>>, <<OldRecord>>}
    /\ seen_places_file = mark_all_seen(EmptyIndex, final_json)
    /\ batch_files = {}
    /\ file_state = AllFilesOk
    /\ NoVariant
    /\ FreshProcess("d_start")
    /\ InitGhost

\* pending_links.json cannot be written during the run (a read-only directory,
\* a full disk): every open(..., "w") on it raises IOError
InitDetailsUnwritable ==
    /\ phase = "details"
    /\ queries = <<>>
    /\ batch_size = 1
    /\ run = 1
    /\ completed_searches_file = {}
    /\ pending_links_file \in {BaseQueue(n) : n \in 0..2}
    /\ failed_items_file = <<>>
    /\ progress_file = DefaultProgress
    /\ final_json = <<>>
    /\ seen_places_file = EmptyIndex
    /\ batch_files = {}
    /\ file_state = [AllFilesOk EXCEPT !["pending_links"] = "unwritable"]
    /\ options = NoOptions
    /\ recovery_files = NoRecoveryFiles
    /\ recovery = NoRecoveryLocals
    /\ rescrape_files = NoRescrapeFiles
    /\ rescrape = NoRescrapeLocals
    /\ peer = NoPeer
    /\ FreshProcess("d_start")
    /\ InitGhost

InitDetails == InitDetailsWith(DetailQueues(MaxQueue), {1, 2})

\* the crash runs: queues of distinct links, one link per batch
InitDetailsCrash ==
    InitDetailsWith({BaseQueue(n) : n \in 0..MaxCrashQueue}, {1})

NextDetails ==
    \/ DetailsStart
    \/ DetailsNextBatch
    \/ DetailsExecReturn
    \/ DetailsExecRaise
    \/ DetailsWriteBatchFile
    \/ DetailsCount
    \/ DetailsHaltSave
    \/ DetailsSaveProgress
    \/ DetailsDedupSave
    \/ DetailsExcept
    \/ DetailsExceptRemove
    \/ DetailsFinal

SpecDetails == InitDetails /\ [][NextDetails]_vars

SpecDetailsUnwritable == InitDetailsUnwritable /\ [][NextDetails]_vars

NextDetailsCrash ==
    \/ NextDetails
    \/ Kill
    \/ Rerun

SpecDetailsCrash == InitDetailsCrash /\ [][NextDetailsCrash]_vars

(***************************************************************************)
(* Search Phase specification                                              *)
(***************************************************************************)
QItalian == "Italian restaurants near 10001"
QThai == "Thai restaurants near 10001"
QPizza == "Pizza restaurants near 10001"

\* the query lists tried: the query texts of a list are distinct
QueryLists == {<<QItalian, QThai>>, <<QItalian, QThai, QPizza>>}

InitSearch ==
    /\ phase = "search"
    /\ queries \in QueryLists
    /\ batch_size \in {1, 2}
    /\ run = 1
    /\ \E used \in BOOLEAN :
          /\ completed_searches_file = IF used THEN {QThai} ELSE {}
          /\ pending_links_file = IF used THEN <<Link(3)>> ELSE <<>>
    /\ failed_items_file = <<>>
    /\ progress_file = DefaultProgress
    /\ final_json = <<>>
    /\ seen_places_file \in {EmptyIndex, [ids |-> {HexPairs[1]}, hashes |-> {}]}
    /\ batch_files = {}
    /\ file_state = AllFilesOk
    /\ NoVariant
    /\ FreshProcess("s_start")
    /\ InitGhost

NextSearch ==
    \/ SearchStart
    \/ SearchLoop
    \/ SearchExecReturn
    \/ SearchExecRaise
    \/ SearchExcept
    \/ SearchMerge
    \/ SearchAddLinks
    \/ SearchSaveProgress
    \/ SearchSaveAll
    \/ SearchDedupSave
    \/ Kill
    \/ Rerun
    \/ SearchAgain

SpecSearch == InitSearch /\ [][NextSearch]_vars

\* the Search Phase with an executor that may leave a slot of its list None
NextSearchNull ==
    \/ SearchStart
    \/ SearchLoop
    \/ SearchExecReturn
    \/ SearchExecReturnNull
    \/ SearchExecRaise
    \/ SearchExcept
    \/ SearchMerge
    \/ SearchAddLinks
    \/ SearchSaveProgress
    \/ SearchSaveAll
    \/ SearchDedupSave

SpecSearchNull == InitSearch /\ [][NextSearchNull]_vars

(***************************************************************************)
(* run_scraper (scraper.py): the phases in sequence, in one process, with  *)
(* neither skip_search nor skip_details.  phase is "details_again" in the  *)
(* second run of the Details Phase.                                        *)
(***************************************************************************)
restOfProcess == <<completed_searches, pending_links, dedup, detailLocals, searchLocals,
                   retryLocals, queries, batch_size, file_state, options,
                   variantVars, run, ghostVars, g_index>>

restOfDisk == <<completed_searches_file, pending_links_file, failed_items_file,
                seen_places_file, final_json, batch_files>>

\* lines 440-444
RunSearchPhase ==
    /\ pc = "m_search"
    /\ phase' = "search"
    /\ IF options.skip_search
       THEN pc' = "done" /\ UNCHANGED progress_file
       ELSE /\ progress_file' = [progress_file EXCEPT !.phase = "search"]
            /\ pc' = "s_start"
    /\ UNCHANGED <<restOfDisk, restOfProcess>>

\* lines 447-451
RunDetailsPhase ==
    /\ pc = "done"
    /\ phase = "search"
    /\ phase' = "details"
    /\ IF options.skip_details
       THEN pc' = "done" /\ UNCHANGED progress_file
       ELSE /\ progress_file' = [progress_file EXCEPT !.phase = "details"]
            /\ pc' = "d_start"
    /\ UNCHANGED <<restOfDisk, restOfProcess>>

\* the Retry Phase is entered whatever the FailureLog holds
RunsRetryAlwaysMut(skip_search, log) == ~skip_search

\* line 454: not skip_search and checkpoint.get_failures()
runs_retry(skip_search, log) == ~skip_search /\ log # <<>>

\* line 461: not skip_details and checkpoint.get_pending_links_count() > 0
runs_details_again(skip_details, pending) == ~skip_details /\ Len(pending) > 0

\* lines 454-458
RunRetryPhase ==
    /\ pc = "done"
    /\ phase = "details"
    /\ IF runs_retry(options.skip_search, failed_items_file)
       THEN /\ progress_file' = [progress_file EXCEPT !.phase = "retry"]
            /\ phase' = "retry"
            /\ pc' = "r_start"
       ELSE /\ pc' = "m_complete"
            /\ UNCHANGED <<progress_file, phase>>
    /\ batch' = <<>>      \* the phase function's locals are new
    /\ UNCHANGED <<restOfDisk, completed_searches, pending_links, dedup, detailRest,
                   searchLocals, retryLocals, queries, batch_size, file_state, options,
                   variantVars, run, ghostVars, g_index>>

\* lines 460-465
RunDetailsAgain ==
    /\ pc = "done"
    /\ phase = "retry"
    /\ IF runs_details_again(options.skip_details, PendingQueue)
       THEN /\ progress_file' = [progress_file EXCEPT !.phase = "details"]
            /\ phase' = "details_again"
            /\ pc' = "d_start"
       ELSE /\ pc' = "m_complete"
            /\ UNCHANGED <<progress_file, phase>>
    /\ pending_links' = IF options.skip_details THEN pending_links
                        ELSE [loaded |-> TRUE, val |-> PendingQueue]
    /\ batch' = <<>>      \* the phase function's locals are new
    /\ UNCHANGED <<restOfDisk, completed_searches, dedup, detailRest, searchLocals,
                   retryLocals, queries, batch_size, file_state, options,
                   variantVars, run, ghostVars, g_index>>

\* lines 467-471
MarkComplete ==
    /\ \/ pc = "m_complete"
       \/ pc = "done" /\ phase = "details_again"
    /\ progress_file' = [progress_file EXCEPT !.phase = "complete"]
    /\ phase' = "complete"
    /\ pc' = "m_done"
    /\ UNCHANGED <<restOfDisk, restOfProcess>>

\* the checkpoint directory is empty, or an earlier run has left its files: a
\* query that failed and was completed later, and a link that failed
EarlierFailures ==
    <<[item |-> QueryItem(QThai), error |-> "error"],
      [item |-> LinkItem(Link(3)), error |-> "error"]>>

InitPipeline ==
    /\ phase = "search"
    /\ queries = <<QItalian, QThai>>
    /\ batch_size \in {1, 2}
    /\ run = 1
    /\ \E used \in BOOLEAN :
          /\ completed_searches_file = IF used THEN {QThai} ELSE {}
          /\ pending_links_file = IF used THEN <<Link(3)>> ELSE <<>>
          /\ final_json = IF used THEN <<OldRecord>> ELSE <<>>
          /\ failed_items_file = IF used THEN EarlierFailures ELSE <<>>
    /\ progress_file = DefaultProgress
    /\ seen_places_file = mark_all_seen(EmptyIndex, final_json)
    /\ batch_files = {}
    /\ file_state = AllFilesOk
    /\ NoVariant
    /\ FreshProcess("m_search")
    /\ InitGhost

NextPipeline ==
    \/ RunSearchPhase
    \/ SearchStart
    \/ SearchLoop
    \/ SearchExecReturn
    \/ SearchExecRaise
    \/ SearchExcept
    \/ SearchMerge
    \/ SearchAddLinks
    \/ SearchSaveProgress
    \/ SearchSaveAll
    \/ SearchDedupSave
    \/ RunDetailsPhase
    \/ DetailsStart
    \/ DetailsNextBatch
    \/ DetailsExecReturn
    \/ DetailsExecRaise
    \/ DetailsWriteBatchFile
    \/ DetailsCount
    \/ DetailsHaltSave
    \/ DetailsSaveProgress
    \/ DetailsDedupSave
    \/ DetailsExcept
    \/ DetailsExceptRemove
    \/ DetailsFinal
    \/ RunRetryPhase
    \/ RetryStart
    \/ RetryLoop
    \/ RetrySkip
    \/ RetryExecReturn
    \/ RetryExecRaise
    \/ RetryAddLinks
    \/ RetrySaveProgress
    \/ RetrySaveAll
    \/ RetryDedupSave
    \/ RetryRewrite
    \/ RunDetailsAgain
    \/ MarkComplete

SpecPipeline == InitPipeline /\ [][NextPipeline]_vars

\* run_scraper with either phase skipped or not; the process is not stopped
InitOrder ==
    /\ phase = "run"
    /\ queries = <<QItalian, QThai>>
    /\ batch_size = 1
    /\ run = 1
    /\ \E used \in BOOLEAN :
          /\ completed_searches_file = IF used THEN {QThai} ELSE {}
          /\ pending_links_file = IF used THEN <<Link(3)>> ELSE <<>>
          /\ final_json = IF used THEN <<OldRecord>> ELSE <<>>
          /\ failed_items_file = IF used THEN EarlierFailures ELSE <<>>
    /\ progress_file = DefaultProgress
    /\ seen_places_file = mark_all_seen(EmptyIndex, final_json)
    /\ batch_files = {}
    /\ file_state = AllFilesOk
    /\ options \in [mode : {"production"}, dry_run : {FALSE}, skip_search : BOOLEAN,
                   skip_details : BOOLEAN]
    /\ recovery_files = NoRecoveryFiles
    /\ recovery = NoRecoveryLocals
    /\ rescrape_files = NoRescrapeFiles
    /\ rescrape = NoRescrapeLocals
    /\ peer = NoPeer
    /\ FreshProcess("m_search")
    /\ InitGhost

\* run_scraper with skip_search (the links of an earlier run are used)
InitSkipSearch ==
    /\ phase = "run"
    /\ queries = <<QItalian, QThai>>
    /\ batch_size = 1
    /\ run = 1
    /\ completed_searches_file = {QItalian, QThai}
    /\ pending_links_file \in {BaseQueue(n) : n \in 0..MaxQueue}
    /\ final_json \in {<<>>, <<OldRecord>>}
    /\ failed_items_file \in {<<>>, EarlierFailures}
    /\ progress_file = DefaultProgress
    /\ seen_places_file = mark_all_seen(EmptyIndex, final_json)
    /\ batch_files = {}
    /\ file_state = AllFilesOk
    /\ options = [NoOptions EXCEPT !.skip_search = TRUE]
    /\ recovery_files = NoRecoveryFiles
    /\ recovery = NoRecoveryLocals
    /\ rescrape_files = NoRescrapeFiles
    /\ rescrape = NoRescrapeLocals
    /\ peer = NoPeer
    /\ FreshProcess("m_search")
    /\ InitGhost

NextSkipSearch ==
    \/ RunSearchPhase
    \/ RunDetailsPhase
    \/ NextDetails
    \/ RunRetryPhase
    \/ MarkComplete

SpecSkipSearch == InitSkipSearch /\ [][NextSkipSearch]_vars

\* where the process is: every step of run_scraper changes one of these
control == <<pc, phase, i, pos>>

SpecOrder == InitOrder /\ [][NextPipeline]_vars /\ WF_control(NextPipeline)

Modes == {"production", "fill_gaps", "cuisine", "test"}

\* run_scraper, lines 380-437: the managers are opened, the queries are built
\* for the mode, and a dry run returns where the mode's branch tests dry_run
RunScraperStart ==
    /\ pc = "m_begin"
    /\ pc' = IF options.dry_run /\ options.mode # "test" THEN "m_done" ELSE "m_search"
    /\ UNCHANGED <<diskVars, phase, restOfProcess>>

InitRun ==
    /\ phase = "run"
    /\ queries = <<QItalian, QThai>>
    /\ batch_size = 1
    /\ run = 1
    /\ \E used \in BOOLEAN :
          /\ completed_searches_file = IF used THEN {QThai} ELSE {}
          /\ pending_links_file = IF used THEN <<Link(3)>> ELSE <<>>
          /\ final_json = IF used THEN <<OldRecord>> ELSE <<>>
          /\ failed_items_file = IF used THEN EarlierFailures ELSE <<>>
    /\ progress_file = DefaultProgress
    /\ seen_places_file = mark_all_seen(EmptyIndex, final_json)
    /\ batch_files = {}
    /\ file_state = AllFilesOk
    /\ options \in [mode : Modes, dry_run : {TRUE}, skip_search : {FALSE},
                   skip_details : {FALSE}]
    /\ recovery_files = NoRecoveryFiles
    /\ recovery = NoRecoveryLocals
    /\ rescrape_files = NoRescrapeFiles
    /\ rescrape = NoRescrapeLocals
    /\ peer = NoPeer
    /\ FreshProcess("m_begin")
    /\ InitGhost

NextRun ==
    \/ RunScraperStart
    \/ NextPipeline

SpecRun == InitRun /\ [][NextRun]_vars

(***************************************************************************)
(* Retry Phase specification: a FailureLog left by earlier phases          *)
(***************************************************************************)
FailureEntries ==
    {[item |-> it, error |-> "error"] :
        it \in {QueryItem(QItalian), QueryItem(QThai), LinkItem(Link(1))}}

\* the logs tried, an item recorded more than once included
FailureLogs(n) == UNION {[1..k -> FailureEntries] : k \in 0..n}

InitRetry ==
    /\ phase = "retry"
    /\ queries = <<>>
    /\ batch_size \in {1, 2}
    /\ run = 1
    /\ \E used \in BOOLEAN :
          /\ completed_searches_file = IF used THEN {QThai} ELSE {}
          /\ pending_links_file = IF used THEN <<Link(3)>> ELSE <<>>
    /\ failed_items_file \in FailureLogs(MaxLog)
    /\ progress_file = DefaultProgress
    /\ final_json = <<>>
    /\ seen_places_file \in {EmptyIndex, [ids |-> {HexPairs[1]}, hashes |-> {}]}
    /\ batch_files = {}
    /\ file_state = AllFilesOk
    /\ NoVariant
    /\ FreshProcess("r_start")
    /\ InitGhost

NextRetry ==
    \/ RetryStart
    \/ RetryLoop
    \/ RetrySkip
    \/ RetryExecReturn
    \/ RetryExecRaise
    \/ RetryAddLinks
    \/ RetrySaveProgress
    \/ RetrySaveAll
    \/ RetryDedupSave
    \/ RetryRewrite

SpecRetry == InitRetry /\ [][NextRetry]_vars

(***************************************************************************)
(* DeduplicationManager specification: its methods called on bounded       *)
(* inputs, on the index a new manager loads                                *)
(***************************************************************************)
\* the same name and address as NameJoe and AddrMain, in another case and
\* with surrounding whitespace
NameJoeVariant == <<" ", "j", "o", "e">>
AddrMainVariant == <<"1", " ", "m", "a", "i", "n", "\n">>

\* records as is_duplicate reads them: place_id, name and address, each
\* possibly absent
DedupRecords ==
    [place_id : {NoId, HexPairs[1], HexPairs[2]},
     name : {NameJoe, NameJoeVariant, NoText},
     address : {AddrMain, AddrMainVariant, NoText}]

RecordLists(n) == UNION {[1..k -> DedupRecords] : k \in 1..n}

LinkInputs ==
    {<<>>, <<Link(1), LinkRaw, Link(2), LinkData1>>, <<Link(2), Link(2), Link(1)>>,
     <<LinkData1, Link(3)>>}

InitDedup ==
    /\ phase = "dedup"
    /\ queries = <<>>
    /\ batch_size = 1
    /\ run = 1
    /\ completed_searches_file = {}
    /\ pending_links_file = <<>>
    /\ failed_items_file = <<>>
    /\ progress_file = DefaultProgress
    /\ final_json = <<>>
    /\ seen_places_file \in {EmptyIndex, mark_seen(EmptyIndex, OldRecord)}
    /\ batch_files = {}
    /\ file_state = AllFilesOk
    /\ NoVariant
    /\ FreshProcess("p_idle")
    /\ InitGhost

\* filter_unique(results): on a new list, then once more on the same list
FilterUniqueCall ==
    /\ pc \in {"p_idle", "p_once"}
    /\ \E rs \in IF pc = "p_idle" THEN RecordLists(MaxRecords) ELSE {results} :
          /\ results' = rs
          /\ unique_results' = filter_unique(dedup, rs).unique
          /\ dedup' = filter_unique(dedup, rs).index
          /\ g_trace' = Append(g_trace, filter_unique(dedup, rs).unique)
    /\ g_index' = dedup
    /\ pc' = IF pc = "p_idle" THEN "p_once" ELSE "p_twice"
    /\ UNCHANGED <<diskVars, completed_searches, pending_links, all_restaurants,
                   consecutive_empty_batches, batch_num, batch, progress, searchLocals,
                   retryLocals, inputVars, run, g_initial, g_before, g_batched,
                   g_fetched, g_kill, g_start, g_prev>>

\* mark_seen(a) for a pair of records <<a, b>>
MarkSeenCall ==
    /\ pc = "p_idle"
    /\ \E rs \in [1..2 -> DedupRecords] :
          /\ results' = rs
          /\ dedup' = mark_seen(dedup, rs[1])
    /\ g_index' = dedup
    /\ pc' = "p_marked"
    /\ UNCHANGED <<diskVars, completed_searches, pending_links, all_restaurants,
                   consecutive_empty_batches, batch_num, batch, unique_results, progress,
                   searchLocals, retryLocals, inputVars, run, ghostVars>>

\* filter_unseen_links(links) on the index as it is
FilterUnseenCall ==
    /\ pc \in {"p_idle", "p_once", "p_twice", "p_marked"}
    /\ \E ls \in LinkInputs :
          /\ batch' = ls
          /\ batch_links' = filter_unseen_links(dedup, ls)
    /\ g_index' = dedup
    /\ pc' = "p_links"
    /\ UNCHANGED <<diskVars, completed_searches, pending_links, dedup, all_restaurants,
                   consecutive_empty_batches, batch_num, results, unique_results,
                   progress, remaining, i, pending_queries, search_results, retryLocals,
                   inputVars, run, ghostVars>>

NextDedup ==
    \/ FilterUniqueCall
    \/ MarkSeenCall
    \/ FilterUnseenCall

SpecDedup == InitDedup /\ [][NextDedup]_vars

(***************************************************************************)
(* CheckpointManager specification (checkpoint.py): the methods of one     *)
(* instance called in any order on one checkpoint directory, the write of  *)
(* pending_links.json failing or not.  A missing file is the empty value.  *)
(***************************************************************************)
StoreLinkArgs == {<<Link(1)>>, <<Link(2), Link(2)>>}

\* reset leaves failed_items.json in place
FilesButFailuresMut == {"progress", "pending_links", "completed_searches"}

\* reset, lines 234-239
files_to_remove == {"progress", "pending_links", "failed_items", "completed_searches"}

\* __init__, lines 20-31: a new instance on the same directory
StoreOpen ==
    /\ pc \in {"st_idle", "st_reset"}
    /\ completed_searches' = NotLoadedSet
    /\ pending_links' = NotLoaded
    /\ UNCHANGED <<diskVars, pc, dedup, detailLocals, searchLocals, retryLocals,
                   inputVars, run, ghostVars, g_index>>

\* add_pending_links, lines 110-124
StoreAdd ==
    /\ pc \in {"st_idle", "st_reset", "st_add", "st_remove"}
    /\ \E links \in StoreLinkArgs, ok \in BOOLEAN :
          /\ batch_links' = links
          /\ IF NewLinks(PendingQueue, links) = <<>>
             THEN /\ pending_links' = [loaded |-> TRUE, val |-> PendingQueue]
                  /\ UNCHANGED pending_links_file
             ELSE \E combined \in add_pending_links(PendingQueue, links) :
                     IF ok
                     THEN /\ pending_links_file' = combined
                          /\ pending_links' = [loaded |-> TRUE, val |-> combined]
                     ELSE \* line 120 is skipped when the write raises
                          /\ pending_links' = [loaded |-> TRUE, val |-> PendingQueue]
                          /\ UNCHANGED pending_links_file
          /\ pc' = IF ok \/ NewLinks(PendingQueue, links) = <<>>
                   THEN "st_add" ELSE "st_addfailed"
    /\ g_before' = PendingQueue
    /\ UNCHANGED <<completed_searches_file, failed_items_file, progress_file,
                   seen_places_file, final_json, batch_files, completed_searches, dedup,
                   detailLocals, searchRest, i, retryLocals, inputVars, run, g_initial,
                   g_trace, g_batched, g_fetched, g_kill, g_start, g_prev, g_index>>

\* remove_processed_links, lines 146-157
StoreRemove ==
    /\ pc \in {"st_idle", "st_reset", "st_add", "st_remove"}
    /\ \E links \in StoreLinkArgs, ok \in BOOLEAN :
          /\ batch' = links
          /\ IF ok
             THEN /\ pending_links_file' = remove_processed_links(PendingQueue, links)
                  /\ pending_links' = [loaded |-> TRUE, val |-> pending_links_file']
             ELSE \* line 155 is skipped when the write raises
                  /\ pending_links' = [loaded |-> TRUE, val |-> PendingQueue]
                  /\ UNCHANGED pending_links_file
          /\ pc' = IF ok THEN "st_remove" ELSE "st_removefailed"
    /\ g_before' = PendingQueue
    /\ UNCHANGED <<completed_searches_file, failed_items_file, progress_file,
                   seen_places_file, final_json, batch_files, completed_searches, dedup,
                   detailRest, searchLocals, retryLocals, inputVars, run, g_initial,
                   g_trace, g_batched, g_fetched, g_kill, g_start, g_prev, g_index>>

\* the caller goes on after a write that failed
StoreGoOn ==
    /\ pc \in {"st_addfailed", "st_removefailed"}
    /\ pc' = "st_idle"
    /\ UNCHANGED <<diskVars, completed_searches, pending_links, dedup, detailLocals,
                   searchLocals, retryLocals, inputVars, run, ghostVars, g_index>>

\* mark_search_completed, lines 80-84, then save_all, lines 211-213
StoreMark ==
    /\ pc \in {"st_idle", "st_reset", "st_add", "st_remove"}
    /\ completed_searches' =
           [loaded |-> TRUE, val |-> CompletedSearches \cup {QItalian}]
    /\ completed_searches_file' = completed_searches'.val
    /\ pc' = "st_idle"
    /\ UNCHANGED <<pending_links_file, failed_items_file, progress_file,
                   seen_places_file, final_json, batch_files, pending_links, dedup,
                   detailLocals, searchLocals, retryLocals, inputVars, run, ghostVars,
                   g_index>>

\* record_failure, lines 163-183
StoreRecordFailure ==
    /\ pc \in {"st_idle", "st_reset", "st_add", "st_remove"}
    /\ Len(failed_items_file) < MaxLog
    /\ failed_items_file' = record_failure(failed_items_file, LinkItem(Link(1)), "error")
    /\ pc' = "st_idle"
    /\ UNCHANGED <<completed_searches_file, pending_links_file, progress_file,
                   seen_places_file, final_json, batch_files, completed_searches,
                   pending_links, dedup, detailLocals, searchLocals, retryLocals,
                   inputVars, run, ghostVars, g_index>>

\* save_progress, lines 52-59, of a progress read with get_progress
StoreSaveProgress ==
    /\ pc \in {"st_idle", "st_reset", "st_add", "st_remove"}
    /\ progress_file' =
           [progress_file EXCEPT !.phase = "details",
                                 !.total_links_found = Len(PendingQueue)]
    /\ pending_links' = [loaded |-> TRUE, val |-> PendingQueue]
    /\ pc' = "st_idle"
    /\ UNCHANGED <<completed_searches_file, pending_links_file, failed_items_file,
                   seen_places_file, final_json, batch_files, completed_searches, dedup,
                   detailLocals, searchLocals, retryLocals, inputVars, run, ghostVars,
                   g_index>>

\* reset, lines 229-246: the caches are emptied and the files removed
StoreReset ==
    /\ pc \in {"st_idle", "st_add", "st_remove"}
    /\ completed_searches' = [loaded |-> TRUE, val |-> {}]
    /\ pending_links' = [loaded |-> TRUE, val |-> <<>>]
    /\ progress_file' =
           IF "progress" \in files_to_remove THEN DefaultProgress ELSE progress_file
    /\ pending_links_file' =
           IF "pending_links" \in files_to_remove THEN <<>> ELSE pending_links_file
    /\ failed_items_file' =
           IF "failed_items" \in files_to_remove THEN <<>> ELSE failed_items_file
    /\ completed_searches_file' =
           IF "completed_searches" \in files_to_remove THEN {}
           ELSE completed_searches_file
    /\ pc' = "st_reset"
    /\ UNCHANGED <<seen_places_file, final_json, batch_files, dedup, detailLocals,
                   searchLocals, retryLocals, inputVars, run, ghostVars, g_index>>

InitStore ==
    /\ phase = "store"
    /\ queries = <<>>
    /\ batch_size = 1
    /\ run = 1
    /\ \E used \in BOOLEAN :
          /\ completed_searches_file = IF used THEN {QThai} ELSE {}
          /\ pending_links_file = IF used THEN <<Link(3)>> ELSE <<>>
          /\ failed_items_file = IF used THEN EarlierFailures ELSE <<>>
          /\ progress_file =
                 IF used THEN [DefaultProgress EXCEPT !.phase = "details"]
                 ELSE DefaultProgress
    /\ final_json = <<>>
    /\ seen_places_file = EmptyIndex
    /\ batch_files = {}
    /\ file_state = AllFilesOk
    /\ NoVariant
    /\ FreshProcess("st_idle")
    /\ InitGhost

NextStore ==
    \/ StoreOpen
    \/ StoreAdd
    \/ StoreRemove
    \/ StoreGoOn
    \/ StoreMark
    \/ StoreRecordFailure
    \/ StoreSaveProgress
    \/ StoreReset

SpecStore == InitStore /\ [][NextStore]_vars

(***************************************************************************)
(* Loading specification: the persisted files are opened in any state.  A  *)
(* file that is not well-formed holds the empty value in the model.        *)
(***************************************************************************)
\* DeduplicationManager.__init__ and _load, deduplication.py lines 16-37
LoadDedup ==
    /\ pc = "l_idle"
    /\ LET r == load_json(file_state["seen_places"], seen_places_file, EmptyIndex)
       IN  /\ dedup' = r.val
           /\ pc' = IF r.raised THEN "l_raised" ELSE "l_dedup"
    /\ UNCHANGED <<diskVars, completed_searches, pending_links, detailLocals,
                   searchLocals, retryLocals, inputVars, run, ghostVars, g_index>>

\* get_completed_searches, checkpoint.py lines 92-96 and 61-69
LoadCompleted ==
    /\ pc \in {"l_idle", "l_dedup"}
    /\ ~completed_searches.loaded
    /\ LET r == load_json(file_state["completed_searches"], completed_searches_file, {})
       IN  /\ completed_searches' = [loaded |-> ~r.raised, val |-> r.val]
           /\ pc' = IF r.raised THEN "l_raised" ELSE pc
    /\ UNCHANGED <<diskVars, pending_links, dedup, detailLocals, searchLocals,
                   retryLocals, inputVars, run, ghostVars, g_index>>

\* get_next_batch, checkpoint.py lines 159-161 and 126-140
LoadPending ==
    /\ pc \in {"l_idle", "l_dedup"}
    /\ ~pending_links.loaded
    /\ LET r == load_json(file_state["pending_links"], pending_links_file, <<>>)
       IN  /\ pending_links' = [loaded |-> ~r.raised, val |-> r.val]
           /\ batch' = IF r.raised THEN batch ELSE get_next_batch(r.val, batch_size)
           /\ pc' = IF r.raised THEN "l_raised" ELSE pc
    /\ UNCHANGED <<diskVars, completed_searches, dedup, detailRest, searchLocals,
                   retryLocals, inputVars, run, ghostVars, g_index>>

InitLoad ==
    /\ phase = "load"
    /\ queries = <<>>
    /\ batch_size \in {1, 2}
    /\ run = 1
    /\ file_state \in [PersistedFiles -> FileKinds]
    /\ NoVariant
    /\ completed_searches_file =
           IF file_state["completed_searches"] = "ok" THEN {QThai} ELSE {}
    /\ pending_links_file =
           IF file_state["pending_links"] = "ok" THEN BaseQueue(2) ELSE <<>>
    /\ seen_places_file =
           IF file_state["seen_places"] = "ok"
           THEN mark_seen(EmptyIndex, OldRecord) ELSE EmptyIndex
    /\ failed_items_file = <<>>
    /\ progress_file = DefaultProgress
    /\ final_json = <<>>
    /\ batch_files = {}
    /\ pc = "l_idle"
    /\ completed_searches = NotLoadedSet
    /\ pending_links = NotLoaded
    /\ dedup = EmptyIndex
    /\ all_restaurants = <<>>
    /\ consecutive_empty_batches = 0
    /\ batch_num = 0
    /\ batch = <<>>
    /\ results = <<>>
    /\ unique_results = <<>>
    /\ progress = DefaultProgress
    /\ remaining = <<>>
    /\ i = 0
    /\ pending_queries = <<>>
    /\ search_results = <<>>
    /\ batch_links = <<>>
    /\ failures = <<>>
    /\ retry_queries = <<>>
    /\ retried_queries = <<>>
    /\ pos = 0
    /\ InitGhost

NextLoad ==
    \/ LoadDedup
    \/ LoadCompleted
    \/ LoadPending

SpecLoad == InitLoad /\ [][NextLoad]_vars

(***************************************************************************)
(* recovery_search.py: a query list replayed through a search phase and a  *)
(* details phase on the recovery namespace, with the main seen_places.json *)
(***************************************************************************)
\* recovery_search.py: MAX_CONSECUTIVE_EMPTY in run_phase2
RECOVERY_MAX_CONSECUTIVE_EMPTY == 5

RecoveryLinkLists == {<<>>, <<Link(1), Link(2)>>, <<Link(2), Link(3)>>}

\* pending links left by an earlier recovery run
RecoveredQueue == [k \in 1..RECOVERY_MAX_CONSECUTIVE_EMPTY |-> Link(k + 3)]

recoveryRest == <<completed_searches_file, pending_links_file, failed_items_file,
                  progress_file, final_json, batch_files, completed_searches,
                  pending_links, retryLocals, phase, queries, batch_size, file_state,
                  options, rescrape_files, rescrape, peer, run, g_initial, g_before,
                  g_batched, g_fetched, g_kill, g_start, g_prev, g_index>>

\* main, lines 290-304: the DeduplicationManager is opened on the main index
RecoveryMain ==
    /\ pc = "rc_begin"
    /\ dedup' = seen_places_file
    /\ pc' = "rc1_start"
    /\ UNCHANGED <<recoveryRest, seen_places_file, detailLocals, searchLocals,
                   recovery_files, recovery, g_trace>>

\* run_phase1, lines 80-108
RecoveryPhase1Start ==
    /\ pc = "rc1_start"
    /\ remaining' = get_remaining_searches(recovery_files.completed, queries)
    /\ i' = 0
    /\ IF remaining' = <<>>
       THEN /\ pc' = "rc2_start"
            /\ recovery' = [recovery EXCEPT !.completed = recovery_files.completed]
       ELSE /\ pc' = "rc1_loop"
            /\ recovery' = [recovery EXCEPT !.completed = recovery_files.completed,
                                            !.links = Range(recovery_files.pending)]
    /\ UNCHANGED <<recoveryRest, seen_places_file, dedup, detailLocals, pending_queries,
                   search_results, batch_links, recovery_files, g_trace>>

\* run_phase1, lines 110-182: one batch of searches, or the end of the loop
RecoveryPhase1Batch ==
    /\ pc = "rc1_loop"
    /\ IF i >= Len(remaining)
       THEN /\ pc' = "rc2_start"
            /\ UNCHANGED <<i, pending_queries, search_results, recovery, recovery_files>>
       ELSE /\ pc' = "rc1_loop"
            /\ i' = i + batch_size
            /\ pending_queries' = BatchAt(remaining, i, batch_size)
            /\ \/ \* lines 122-124: scrape_searches raises
                  UNCHANGED <<search_results, recovery, recovery_files>>
               \/ \E res \in [1..Len(pending_queries') ->
                                 [query : Range(remaining),
                                  place_links : RecoveryLinkLists,
                                  error : {FALSE}]] :
                     /\ \A k \in 1..Len(res) : res[k].query = pending_queries'[k]
                     /\ search_results' = res
                     /\ recovery' =
                            [recovery EXCEPT
                                !.completed = mark_results_completed(@, res),
                                !.links = @ \cup UNION {Range(ResultLinks(dedup, res[k])) :
                                                          k \in 1..Len(res)}]
                     /\ \E order \in Perms(recovery'.links) :
                           recovery_files' =
                               [recovery_files EXCEPT
                                   !.completed = recovery'.completed,
                                   !.pending = order,
                                   !.progress =
                                       <<"search", Cardinality(recovery'.completed),
                                         Cardinality(recovery'.links)>>]
    /\ UNCHANGED <<recoveryRest, seen_places_file, dedup, detailLocals, remaining,
                   batch_links, g_trace>>

\* run_phase2, lines 199-223
RecoveryPhase2Start ==
    /\ pc = "rc2_start"
    /\ recovery' = [recovery EXCEPT !.pending_links = recovery_files.pending]
    /\ g_trace' = <<>>
    /\ IF recovery_files.pending = <<>>
       THEN /\ pc' = "rc_done"
            /\ UNCHANGED <<all_restaurants, dedup, batch_num, consecutive_empty_batches>>
       ELSE /\ pc' = "rc2_loop"
            /\ all_restaurants' = recovery_files.output
            /\ dedup' = mark_all_seen(dedup, recovery_files.output)
            /\ batch_num' = 0
            /\ consecutive_empty_batches' = 0
    /\ UNCHANGED <<recoveryRest, seen_places_file, batch, results, unique_results,
                   progress, searchLocals, recovery_files>>

\* lines 253-268: the batch is cut off the list and everything is saved
RecoveryPhase2Save(links, recs, index, num) ==
    /\ recovery' = [recovery EXCEPT !.pending_links = links]
    /\ recovery_files' =
           [recovery_files EXCEPT
               !.pending = links,
               !.output = recs,
               !.progress = <<"details", num * batch_size, Len(links), Len(recs)>>]
    /\ seen_places_file' = index

\* run_phase2, lines 225-279: one batch of details, or the end of the loop
RecoveryPhase2Batch ==
    /\ pc = "rc2_loop"
    /\ IF recovery.pending_links = <<>>
       THEN /\ pc' = "rc_done"
            /\ UNCHANGED <<batch, batch_num, results, unique_results, all_restaurants,
                           dedup, consecutive_empty_batches, recovery, recovery_files,
                           seen_places_file, g_trace>>
       ELSE /\ batch' = Prefix(recovery.pending_links, batch_size)
            /\ batch_num' = batch_num + 1
            /\ \/ \* lines 250-251: scrape_places raises
                  /\ g_trace' = Append(g_trace, "raise")
                  /\ RecoveryPhase2Save(
                         SubSeq(recovery.pending_links, batch_size + 1,
                                Len(recovery.pending_links)),
                         all_restaurants, dedup, batch_num')
                  /\ pc' = "rc2_loop"
                  /\ UNCHANGED <<results, unique_results, all_restaurants, dedup,
                                 consecutive_empty_batches>>
               \/ \E slots \in [1..Len(batch') ->
                                   UNION {SlotChoices(batch'[k]) : k \in 1..Len(batch')}] :
                     /\ \A k \in 1..Len(batch') : slots[k] \in SlotChoices(batch'[k])
                     /\ LET fu == filter_unique(dedup, Flatten(slots))
                            count == IF fu.unique # <<>> THEN 0
                                     ELSE consecutive_empty_batches + 1
                        IN  /\ results' = Flatten(slots)
                            /\ unique_results' = fu.unique
                            /\ all_restaurants' = all_restaurants \o fu.unique
                            /\ dedup' = fu.index
                            /\ consecutive_empty_batches' = count
                            /\ g_trace' =
                                   Append(g_trace, OutcomeTag(Flatten(slots), fu.unique))
                            /\ IF count >= RECOVERY_MAX_CONSECUTIVE_EMPTY
                               THEN \* lines 246-248: break, before the removal and the saves
                                    /\ pc' = "rc_done"
                                    /\ UNCHANGED <<recovery, recovery_files,
                                                   seen_places_file>>
                               ELSE /\ pc' = "rc2_loop"
                                    /\ RecoveryPhase2Save(
                                           SubSeq(recovery.pending_links, batch_size + 1,
                                                  Len(recovery.pending_links)),
                                           all_restaurants', fu.index, batch_num')
    /\ UNCHANGED <<recoveryRest, progress, searchLocals>>

InitRecovery ==
    /\ phase = "recovery"
    /\ queries = <<QItalian, QThai>>
    /\ batch_size \in {1, 2}
    /\ run = 1
    /\ completed_searches_file = {QThai}
    /\ pending_links_file = <<Link(3)>>
    /\ failed_items_file = EarlierFailures
    /\ progress_file = [DefaultProgress EXCEPT !.phase = "details"]
    /\ final_json = <<OldRecord>>
    /\ seen_places_file \in {mark_seen(EmptyIndex, OldRecord),
                             mark_seen([ids |-> {HexPairs[1]}, hashes |-> {}], OldRecord)}
    /\ batch_files = {}
    /\ file_state = AllFilesOk
    /\ options = NoOptions
    /\ \E resumed \in BOOLEAN :
          recovery_files =
              IF resumed
              THEN [NoRecoveryFiles EXCEPT !.completed = {QItalian, QThai},
                                            !.pending = RecoveredQueue]
              ELSE NoRecoveryFiles
    /\ recovery = NoRecoveryLocals
    /\ rescrape_files = NoRescrapeFiles
    /\ rescrape = NoRescrapeLocals
    /\ peer = NoPeer
    /\ FreshProcess("rc_begin")
    /\ InitGhost

NextRecovery ==
    \/ RecoveryMain
    \/ RecoveryPhase1Start
    \/ RecoveryPhase1Batch
    \/ RecoveryPhase2Start
    \/ RecoveryPhase2Batch

SpecRecovery == InitRecovery /\ [][NextRecovery]_vars

(***************************************************************************)
(* rescrape_rejected.py: the places that are seen but neither saved nor    *)
(* pending are visited again and merged into all_restaurants.json          *)
(***************************************************************************)
\* rescrape_places: MAX_CONSECUTIVE_BAD_BATCHES
MAX_CONSECUTIVE_BAD_BATCHES == 3

\* ERROR_RATE_THRESHOLD = 0.8, as the fraction ThresholdNum / ThresholdDen
ThresholdNum == 4
ThresholdDen == 5

\* URL_TEMPLATE.format(pid)
rescrape_url(pid) == <<"/maps/place/", "data=!4m2!3m1", "!1s", pid>>

\* _extract_place_id_from_url: the "!1s" pattern only, None (NoId) otherwise
extract_place_id_from_url(url) ==
    IF MarkerMatches(url) # {} THEN url[MinOf(MarkerMatches(url)) + 1] ELSE NoId

SavedIds(recs) == {r.place_id : r \in {x \in Range(recs) : x.place_id # NoId}}

PendingIds(links) == {extract_place_id_from_url(l) : l \in Range(links)} \ {NoId}

\* the saved records are not subtracted
RejectedKeepSavedMut(seen, saved, pending, done) ==
    (seen.ids \ PendingIds(pending)) \ done

\* recover_rejected_place_ids, line 73
recover_rejected_place_ids(seen, saved, pending, done) ==
    ((seen.ids \ SavedIds(saved)) \ PendingIds(pending)) \ done

\* nothing is appended
MergeNothingMut(existing, all_results) == existing

\* lines 298-315: the records whose identifier is not yet there are appended
RECURSIVE merge(_, _)
merge(existing, all_results) ==
    IF all_results = <<>> THEN existing
    ELSE LET r == Head(all_results)
         IN  merge(IF r.place_id # NoId /\ r.place_id \notin SavedIds(existing)
                   THEN Append(existing, r) ELSE existing,
                   Tail(all_results))

\* what _scrape_place returns for one URL: None or an error status (both are
\* counted as errors), or a record; the statuses no_name, low_rating and
\* non_restaurant are neither counted nor saved and are left out
RescrapeSlots(url) ==
    {[status |-> "error"],
     [place_id |-> extract_place_id(url), name |-> NameJoe, address |-> AddrMain]}

IsRecord(r) == "place_id" \in DOMAIN r

BatchErrors(res) ==
    Cardinality({k \in 1..Len(res) : ~IsRecord(res[k]) /\ res[k].status = "error"})

\* a batch is bad at a rate of at least the threshold
BadAtThresholdMut(errors, n) == ThresholdDen * errors >= ThresholdNum * n

\* lines 256-257 and 266: batch_errors / len(batch) > ERROR_RATE_THRESHOLD
is_bad_batch(errors, n) == ThresholdDen * errors > ThresholdNum * n

rescrapeRest == <<completed_searches_file, pending_links_file, failed_items_file,
                  progress_file, seen_places_file, batch_files, completed_searches,
                  pending_links, dedup, consecutive_empty_batches, unique_results,
                  progress, remaining, pending_queries, search_results, batch_links,
                  retryLocals, phase, queries, batch_size, file_state, options,
                  recovery_files, recovery, peer, g_initial, g_batched, g_kill, g_prev,
                  g_index>>

\* main, recover_rejected_place_ids and rescrape_places up to line 135
RescrapeMain ==
    /\ pc = "rs_begin"
    /\ LET rejected == recover_rejected_place_ids(seen_places_file, final_json,
                                                  pending_links_file, rescrape_files.done)
       IN  IF options.dry_run
           THEN /\ pc' = "rs_done"
                /\ UNCHANGED <<rescrape, all_restaurants>>
           ELSE \E order \in Perms(rejected) :
                   LET urls == [k \in 1..Len(order) |-> rescrape_url(order[k])]
                       todo == SelectSeq(urls, LAMBDA u :
                                   extract_place_id_from_url(u) \notin rescrape_files.done)
                   IN  /\ rescrape' = [urls |-> todo, done_ids |-> rescrape_files.done,
                                       consecutive_bad_batches |-> 0]
                       /\ all_restaurants' = rescrape_files.output
                       /\ pc' = IF todo = <<>> THEN "rs_done" ELSE "rs_loop"
    /\ i' = 0
    /\ batch_num' = 0
    /\ UNCHANGED <<rescrapeRest, final_json, rescrape_files, run, batch, results,
                   g_before, g_trace, g_fetched, g_start>>

\* lines 230-288: one batch, or the end of the loop
RescrapeBatch ==
    /\ pc = "rs_loop"
    /\ IF i >= Len(rescrape.urls)
       THEN /\ pc' = "rs_merge"
            /\ UNCHANGED <<i, batch, batch_num, results, all_restaurants, rescrape,
                           rescrape_files, g_trace, g_fetched>>
       ELSE /\ batch' = BatchAt(rescrape.urls, i, batch_size)
            /\ i' = i + batch_size
            /\ batch_num' = batch_num + 1
            /\ g_fetched' = g_fetched \cup Range(batch')
            /\ \/ \* lines 285-286: _scrape_place raises
                  /\ g_trace' = Append(g_trace, [raised |-> TRUE, errors |-> 0, n |-> 0])
                  /\ pc' = "rs_loop"
                  /\ UNCHANGED <<results, all_restaurants, rescrape, rescrape_files>>
               \/ \E res \in [1..Len(batch') ->
                                 UNION {RescrapeSlots(batch'[k]) : k \in 1..Len(batch')}] :
                     /\ \A k \in 1..Len(batch') : res[k] \in RescrapeSlots(batch'[k])
                     /\ results' = res
                     /\ all_restaurants' = all_restaurants \o SelectSeq(res, IsRecord)
                     /\ g_trace' = Append(g_trace, [raised |-> FALSE,
                                                    errors |-> BatchErrors(res),
                                                    n |-> Len(batch')])
                     /\ LET bad == is_bad_batch(BatchErrors(res), Len(batch'))
                            count == IF bad THEN rescrape.consecutive_bad_batches + 1
                                     ELSE 0
                            done == rescrape.done_ids \cup
                                    ({extract_place_id_from_url(u) : u \in Range(batch')}
                                     \ {NoId})
                        IN  IF bad /\ count >= MAX_CONSECUTIVE_BAD_BATCHES
                            THEN \* lines 269-272: break, before the checkpoint
                                 /\ pc' = "rs_merge"
                                 /\ rescrape' = [rescrape EXCEPT
                                                    !.consecutive_bad_batches = count]
                                 /\ UNCHANGED rescrape_files
                            ELSE /\ pc' = "rs_loop"
                                 /\ rescrape' = [rescrape EXCEPT
                                                    !.consecutive_bad_batches = count,
                                                    !.done_ids = done]
                                 /\ rescrape_files' = [rescrape_files EXCEPT !.done = done]
    /\ UNCHANGED <<rescrapeRest, final_json, run, g_before, g_start>>

\* lines 290-324: final save, merge into all_restaurants.json, clean up
RescrapeMerge ==
    /\ pc = "rs_merge"
    /\ final_json' = merge(final_json, all_restaurants)
    /\ rescrape_files' = [rescrape_files EXCEPT !.output = <<>>]
    /\ pc' = "rs_done"
    /\ UNCHANGED <<rescrapeRest, run, i, batch, batch_num, results, all_restaurants,
                   rescrape, g_before, g_trace, g_fetched, g_start>>

\* the program has returned and is started again
RescrapeAgain ==
    /\ pc = "rs_done"
    /\ run < MaxRuns
    /\ run' = run + 1
    /\ pc' = "rs_begin"
    /\ rescrape' = NoRescrapeLocals
    /\ all_restaurants' = <<>>
    /\ batch' = <<>>
    /\ results' = <<>>
    /\ i' = 0
    /\ batch_num' = 0
    /\ g_trace' = <<>>
    /\ g_fetched' = {}
    /\ g_start' = Snapshot
    /\ g_before' = rescrape_files.done
    /\ UNCHANGED <<rescrapeRest, final_json, rescrape_files>>

\* seen: n places to visit (one known by its name only), a pending place,
\* a place already visited and a saved place
RescrapeSeen(n) ==
    [ids |-> {HexPairs[k] : k \in 1..(n - 1)}
             \cup {"diner", HexPairs[6], HexPairs[7], OldRecord.place_id},
     hashes |-> {}]

InitRescrape ==
    /\ phase = "rescrape"
    /\ queries = <<>>
    /\ batch_size \in {1, ThresholdDen}
    /\ seen_places_file = RescrapeSeen(IF batch_size = 1 THEN ThresholdNum ELSE ThresholdDen)
    /\ run = 1
    /\ completed_searches_file = {QThai}
    /\ pending_links_file = <<Link(6), LinkData1>>
    /\ failed_items_file = <<>>
    /\ progress_file = [DefaultProgress EXCEPT !.phase = "details"]
    /\ final_json = <<OldRecord>>
    /\ batch_files = {}
    /\ file_state = AllFilesOk
    /\ options \in [mode : {"production"}, dry_run : BOOLEAN, skip_search : {FALSE},
                   skip_details : {FALSE}]
    /\ recovery_files = NoRecoveryFiles
    /\ recovery = NoRecoveryLocals
    /\ rescrape_files = [done |-> {HexPairs[7]}, output |-> <<>>]
    /\ rescrape = NoRescrapeLocals
    /\ peer = NoPeer
    /\ FreshProcess("rs_begin")
    /\ g_initial = <<>>
    /\ g_before = rescrape_files.done
    /\ g_trace = <<>>
    /\ g_batched = {}
    /\ g_fetched = {}
    /\ g_kill = [killed |-> FALSE, run |-> 0, pending |-> {}]
    /\ g_start = Snapshot
    /\ g_prev = [trace |-> <<>>, completed |-> {}, pending |-> <<>>, clean |-> FALSE]
    /\ g_index = EmptyIndex

NextRescrape ==
    \/ RescrapeMain
    \/ RescrapeBatch
    \/ RescrapeMerge
    \/ RescrapeAgain

SpecRescrape == InitRescrape /\ [][NextRescrape]_vars

(***************************************************************************)
(* The three Details-type phases side by side: run_details_phase,          *)
(* run_phase2 of recovery_search and rescrape_places, each from its start  *)
(***************************************************************************)
InitHalts ==
    \/ InitDetailsWith({BaseQueue(n) : n \in 0..MaxQueue}, {1})
    \/ InitRecovery
    \/ InitRescrape

NextHalts ==
    \/ NextDetails
    \/ NextRecovery
    \/ NextRescrape

SpecHalts == InitHalts /\ [][NextHalts]_vars

(***************************************************************************)
(* run_details_phase and run_phase2 of recovery_search as functions of the *)
(* queue, the index and the executor's script, run from one start          *)
(***************************************************************************)
ScriptOutcomes == {"raise", "none", "found"}

\* the record the scripted executor finds behind a link
FoundRecord(link) ==
    [place_id |-> extract_place_id(link), name |-> NameJoe, address |-> NoText]

\* scrape_places under the script: no record at all, or one record per link
ScriptResults(outcome, links) ==
    IF outcome = "none" THEN <<>> ELSE [k \in 1..Len(links) |-> FoundRecord(links[k])]

\* scraper.py lines 174-228: the loop from batch n of the script on
RECURSIVE run_details_loop(_, _, _)
run_details_loop(st, script, n) ==
    LET b == get_next_batch(st.pending, batch_size)
    IN  IF b = <<>> THEN st
        ELSE IF script[n] = "raise"
        THEN run_details_loop(
                 [st EXCEPT !.pending = remove_processed_links(@, b)], script, n + 1)
        ELSE LET res == ScriptResults(script[n], b)
                 fu == filter_unique(st.index, res)
                 after == [pending |-> remove_processed_links(st.pending, b),
                           index |-> fu.index,
                           saved |-> st.saved \o fu.unique,
                           count |-> next_consecutive(st.count, res, b)]
             IN  IF halts(st.count, res, b) THEN after
                 ELSE run_details_loop(after, script, n + 1)

\* recovery_search.py lines 225-273: the loop from batch n of the script on
RECURSIVE run_phase2_loop(_, _, _)
run_phase2_loop(st, script, n) ==
    IF st.pending = <<>> THEN st
    ELSE LET b == Prefix(st.pending, batch_size)
             rest == SubSeq(st.pending, batch_size + 1, Len(st.pending))
         IN  IF script[n] = "raise"
             THEN run_phase2_loop([st EXCEPT !.pending = rest], script, n + 1)
             ELSE LET fu == filter_unique(st.index, ScriptResults(script[n], b))
                      count == IF fu.unique # <<>> THEN 0 ELSE st.count + 1
                      after == [pending |-> st.pending,
                                index |-> fu.index,
                                saved |-> st.saved \o fu.unique,
                                count |-> count]
                  IN  IF count >= RECOVERY_MAX_CONSECUTIVE_EMPTY THEN after
                      ELSE run_phase2_loop([after EXCEPT !.pending = rest], script, n + 1)

variantsRest == <<completed_searches_file, failed_items_file, progress_file,
                  seen_places_file, batch_files, completed_searches, pending_links,
                  batch_num, batch, results, unique_results, progress, searchLocals,
                  retryLocals, phase, queries, batch_size, file_state, options, recovery,
                  rescrape_files, rescrape, peer, run, g_before, g_batched, g_fetched,
                  g_kill, g_start, g_prev, g_index>>

\* both phases run to their end on the same queue, index and script
VariantsRun ==
    /\ pc = "v_start"
    /\ \E script \in [1..Len(pending_links_file) -> ScriptOutcomes] :
          LET start == [pending |-> pending_links_file, index |-> seen_places_file,
                        saved |-> <<>>, count |-> 0]
              main == run_details_loop(start, script, 1)
              variant == run_phase2_loop(start, script, 1)
          IN  /\ g_trace' = script
              /\ g_initial' = pending_links_file
              /\ pending_links_file' = main.pending
              /\ all_restaurants' = main.saved
              /\ final_json' = IF main.saved # <<>> THEN main.saved ELSE final_json
              /\ dedup' = main.index
              /\ consecutive_empty_batches' = main.count
              /\ recovery_files' = [recovery_files EXCEPT !.pending = variant.pending,
                                                          !.output = variant.saved]
    /\ pc' = "v_done"
    /\ UNCHANGED variantsRest

\* the index of a run in which every link of the queue was saved before
SeenAll == mark_all_seen(EmptyIndex, [k \in 1..MaxQueue |-> FoundRecord(Link(k))])

InitVariants ==
    /\ phase = "variants"
    /\ queries = <<>>
    /\ batch_size \in {1, 2}
    /\ run = 1
    /\ completed_searches_file = {}
    /\ pending_links_file \in DetailQueues(MaxQueue)
    /\ failed_items_file = <<>>
    /\ progress_file = DefaultProgress
    /\ final_json = <<>>
    /\ seen_places_file \in {EmptyIndex, SeenAll}
    /\ batch_files = {}
    /\ file_state = AllFilesOk
    /\ options = NoOptions
    /\ recovery_files = [NoRecoveryFiles EXCEPT !.pending = pending_links_file]
    /\ recovery = NoRecoveryLocals
    /\ rescrape_files = NoRescrapeFiles
    /\ rescrape = NoRescrapeLocals
    /\ peer = NoPeer
    /\ FreshProcess("v_start")
    /\ InitGhost

NextVariants == VariantsRun

SpecVariants == InitVariants /\ [][NextVariants]_vars

(***************************************************************************)
(* Two CheckpointManager instances (two processes) on one checkpoint       *)
(* directory: "a" holds the cache pending_links, "b" the cache in peer     *)
(***************************************************************************)
PeerLinkArgs == {<<Link(1)>>, <<Link(2), Link(3)>>, <<Link(3), Link(1)>>}

CacheOf(who) == IF who = "a" THEN pending_links ELSE peer.pending_links

\* the caches after instance who has set its cache to c; writer is who wrote last
SetCache(who, c, writer) ==
    /\ pending_links' = IF who = "a" THEN c ELSE pending_links
    /\ peer' = [pending_links |-> IF who = "b" THEN c ELSE peer.pending_links,
                writer |-> writer]

peerRest == <<completed_searches_file, failed_items_file, progress_file,
              seen_places_file, final_json, batch_files, completed_searches, dedup,
              all_restaurants, consecutive_empty_batches, batch_num, results,
              unique_results, progress, remaining, i, pending_queries, search_results,
              retryLocals, phase, queries, batch_size, file_state, options,
              recovery_files, recovery, rescrape_files, rescrape, run,
              g_trace, g_fetched, g_kill, g_start, g_prev, g_index>>

\* checkpoint.py 110-124, called on instance who
PeerAdd(who, links) ==
    LET view == get_pending_links(CacheOf(who), pending_links_file)
    IN  /\ batch_links' = links
        /\ pc' = "pe_add"
        /\ g_before' = view
        /\ IF NewLinks(view, links) = <<>>
           THEN /\ SetCache(who, [loaded |-> TRUE, val |-> view], peer.writer)
                /\ UNCHANGED pending_links_file
           ELSE \E combined \in add_pending_links(view, links) :
                   /\ pending_links_file' = combined
                   /\ SetCache(who, [loaded |-> TRUE, val |-> combined], who)
        /\ g_initial' = CacheOf(who)'.val
        /\ UNCHANGED <<peerRest, batch, g_batched>>

\* checkpoint.py 146-161, called on instance who with its next batch
PeerRemove(who) ==
    LET view == get_pending_links(CacheOf(who), pending_links_file)
        taken == get_next_batch(view, batch_size)
    IN  /\ batch' = taken
        /\ pc' = "pe_remove"
        /\ g_before' = view
        /\ g_batched' = g_batched \cup Range(taken)
        /\ pending_links_file' = remove_processed_links(view, taken)
        /\ g_initial' = pending_links_file'
        /\ SetCache(who, [loaded |-> TRUE, val |-> pending_links_file'], who)
        /\ UNCHANGED <<peerRest, batch_links>>

InitPeers ==
    /\ phase = "peers"
    /\ queries = <<>>
    /\ batch_size \in {1, 2}
    /\ run = 1
    /\ completed_searches_file = {}
    /\ pending_links_file \in {<<>>, <<Link(1), Link(2)>>}
    /\ failed_items_file = <<>>
    /\ progress_file = DefaultProgress
    /\ final_json = <<>>
    /\ seen_places_file = EmptyIndex
    /\ batch_files = {}
    /\ file_state = AllFilesOk
    /\ NoVariant
    /\ FreshProcess("pe_idle")
    /\ InitGhost

NextPeers ==
    \/ \E who \in {"a", "b"}, links \in PeerLinkArgs : PeerAdd(who, links)
    \/ \E who \in {"a", "b"} : PeerRemove(who)

SpecPeers == InitPeers /\ [][NextPeers]_vars

(***************************************************************************)
(* Properties of the Details Phase                                         *)
(***************************************************************************)
\* the last batch of the current run has been attempted and removed
Attempted ==
    /\ phase = "details"
    /\ g_trace # <<>>
    /\ pc \in {"d_save", "d_haltsave", "d_dedup", "d_loop", "d_final", "done"}
    /\ batch # <<>>

Occurrences(q, links) == Cardinality({k \in 1..Len(q) : q[k] \in Range(links)})

ZeroUnique(tag) == tag \in {"empty", "dups"}

FirstAre(n, Test(_)) == Len(g_trace) >= n /\ \A k \in 1..n : Test(g_trace[k])

LastAre(n, Test(_)) ==
    Len(g_trace) >= n /\ \A k \in (Len(g_trace) - n + 1)..Len(g_trace) : Test(g_trace[k])

NeverBatched == SelectSeq(g_initial, LAMBDA l : l \notin g_batched)

IsEmpty(tag) == tag = "empty"

RECURSIVE CountEmpty(_)
CountEmpty(trace) ==
    IF trace = <<>> THEN 0
    ELSE LET last == trace[Len(trace)]
             front == SubSeq(trace, 1, Len(trace) - 1)
         IN  IF last = "empty" THEN CountEmpty(front) + 1
             ELSE IF last = "raise" THEN CountEmpty(front)
             ELSE 0

CounterPending == pc \in {"d_batchfile", "d_count"}

IsRaise(tag) == tag = "raise"

\* C4: an executor that raises on every batch halts the phase after at most
\* the threshold number of batches, and a queue longer than
\* threshold*batchSize keeps its untouched links.
C4_RaisingExecutorHalts ==
    (phase = "details" /\ g_trace # <<>> /\ FirstAre(Len(g_trace), IsRaise)) =>
        /\ Len(g_trace) <= MAX_CONSECUTIVE_EMPTY
        /\ (pc = "done" /\ Len(g_initial) > MAX_CONSECUTIVE_EMPTY * batch_size)
              => pending_links_file # <<>>

\* the batches of the killed run with a unique record that is neither in
\* all_restaurants.json nor behind a link that was still queued at the kill
LostBatches ==
    {f.n : f \in {g \in g_fetched : /\ g.run = g_kill.run
                                    /\ g.rec \notin Range(final_json)
                                    /\ g.link \notin g_kill.pending}}

\* C5: after a kill and a complete second run, the records fetched before
\* the kill that are lost belong to at most one batch.
C5_BoundedCrashLoss ==
    (phase = "details" /\ g_kill.killed /\ pc = "done") => Cardinality(LostBatches) <= 1

(***************************************************************************)
(* Properties of the Search Phase                                          *)
(***************************************************************************)
\* the identifier test of the index, stated on the link's tokens
SeenLink(ids, l) ==
    \E k \in 1..(Len(l) - 1) :
        /\ l[k] = "!1s" /\ IsHexPair(l[k + 1]) /\ l[k + 1] \in ids
        /\ \A j \in 1..(k - 1) : ~(l[j] = "!1s" /\ IsHexPair(l[j + 1]))

Unseen(ids, links) == SelectSeq(links, LAMBDA l : ~SeenLink(ids, l))

\* the unseen links the returned results of a batch carried
EntryUnseen(e) ==
    UNION {Range(Unseen(g_start.seen.ids, e.results[k].place_links)) :
              k \in 1..Len(e.results)}

Submitted(trace) == UNION {Range(trace[k].qs) : k \in 1..Len(trace)}

Raised(trace) ==
    UNION {Range(trace[k].qs) : k \in {j \in 1..Len(trace) : trace[j].outcome = "raise"}}

\* the batches of the current run that are over: all but the one in flight
FinishedBatches ==
    IF g_trace = <<>> \/ pc = "s_start" THEN {}
    ELSE IF pc \in {"s_loop", "done"} THEN 1..Len(g_trace)
    ELSE 1..(Len(g_trace) - 1)

AfterKill == g_kill.killed /\ g_kill.run = run - 1 /\ pc # "s_start"

\* C6 (as stated): at every point of the phase, on disk, every query of every
\* batch that is over is completed and its unseen links are queued, no query
\* is completed without its unseen links queued, and after a kill only the
\* queries of the batch in flight are issued again.
C6_SearchCrashLoss ==
    phase = "search" =>
        /\ \A k \in FinishedBatches :
              /\ Range(g_trace[k].qs) \subseteq completed_searches_file
              /\ EntryUnseen(g_trace[k]) \subseteq Range(pending_links_file)
        /\ \A q \in completed_searches_file \ g_start.completed :
              \E k \in 1..Len(g_trace) :
                  /\ q \in Range(g_trace[k].qs)
                  /\ EntryUnseen(g_trace[k]) \subseteq Range(pending_links_file)
        /\ (AfterKill /\ g_prev.trace # <<>>) =>
              Range(remaining) \cap Submitted(g_prev.trace)
                  \subseteq Range(Last(g_prev.trace).qs)

\* C6 (amended): at every point of the phase, on disk, every query of every
\* batch that is over and whose executor call returned is completed and its
\* unseen links are queued, no query is completed without its unseen links
\* queued, and after a kill the queries issued again are those of the batch
\* in flight and of the batches whose executor call raised.
C6_SearchCrashLossAmended ==
    phase = "search" =>
        /\ \A k \in FinishedBatches :
              g_trace[k].outcome = "ret" =>
                  /\ Range(g_trace[k].qs) \subseteq completed_searches_file
                  /\ EntryUnseen(g_trace[k]) \subseteq Range(pending_links_file)
        /\ \A q \in completed_searches_file \ g_start.completed :
              \E k \in 1..Len(g_trace) :
                  /\ q \in Range(g_trace[k].qs)
                  /\ g_trace[k].outcome = "ret"
                  /\ EntryUnseen(g_trace[k]) \subseteq Range(pending_links_file)
        /\ (AfterKill /\ g_prev.trace # <<>>) =>
              /\ Range(remaining) \cap Submitted(g_prev.trace)
                    \subseteq Range(Last(g_prev.trace).qs) \cup Raised(g_prev.trace)
              /\ Raised(g_prev.trace) \subseteq Range(remaining)

\* C6 witness: killed while the second batch was in flight, after a first
\* batch that returned links; only the second batch is issued again
C6_Witness ==
    /\ phase = "search"
    /\ AfterKill
    /\ Len(g_prev.trace) = 2
    /\ g_prev.trace[1].outcome = "ret"
    /\ EntryUnseen(g_prev.trace[1]) # {}
    /\ Range(remaining) \cap Submitted(g_prev.trace) = Range(g_prev.trace[2].qs)
    /\ Range(g_prev.trace[1].qs) \subseteq completed_searches_file

ErrorFree(trace) ==
    \A k \in 1..Len(trace) :
        /\ trace[k].outcome = "ret"
        /\ \A j \in 1..Len(trace[k].results) : ~trace[k].results[j].error

\* C7: a second run after a complete first run with an error-free executor
\* submits no query and leaves CompletedSearchSet and PendingQueue as the
\* first run left them.
C7_SearchIdempotent ==
    (phase = "search" /\ run >= 2 /\ pc # "s_start" /\ g_prev.clean
       /\ ErrorFree(g_prev.trace)) =>
        /\ g_trace = <<>>
        /\ pc = "done"
        /\ completed_searches_file = g_prev.completed
        /\ CompletedSearches = g_prev.completed
        /\ pending_links_file = g_prev.pending
        /\ PendingQueue = g_prev.pending

\* C7 witness: the second run is over, the first had submitted every query
C7_Witness ==
    /\ phase = "search"
    /\ run = 2
    /\ pc = "done"
    /\ g_prev.clean
    /\ ErrorFree(g_prev.trace)
    /\ Submitted(g_prev.trace) = Range(queries)
    /\ g_prev.pending # <<>>

ResultsMerged ==
    /\ phase = "search"
    /\ g_trace # <<>>
    /\ Last(g_trace).outcome = "ret"
    /\ pc \in {"s_addlinks", "s_progress", "s_saveall", "s_dedup", "s_loop", "s_exec",
               "done"}

\* C8: once the executor call of a batch has returned and its results are
\* merged, every query submitted in the batch is in CompletedSearchSet,
\* whatever its result; it is in the persisted set once the batch is over.
C8_AllMarkedCompleted ==
    ResultsMerged =>
        /\ Range(Last(g_trace).qs) \subseteq CompletedSearches
        /\ pc \in {"s_dedup", "s_loop", "s_exec", "done"} =>
              Range(Last(g_trace).qs) \subseteq completed_searches_file

\* C8 witness: a batch with an error result and a result without links
C8_Witness ==
    /\ ResultsMerged
    /\ pc = "s_dedup"
    /\ \E k \in 1..Len(search_results) : search_results[k].error
    /\ \E k \in 1..Len(search_results) :
          ~search_results[k].error /\ search_results[k].place_links = <<>>
    /\ Range(pending_queries) \subseteq completed_searches_file

BatchRaised ==
    /\ phase = "search"
    /\ g_trace # <<>>
    /\ Last(g_trace).outcome = "raise"
    /\ pc \in {"s_loop", "s_exec", "done"}

\* C9: when the executor call of a batch raises, none of its queries is
\* completed, each gets one FailureLog entry, PendingQueue is unchanged, and
\* a later run of the phase schedules the queries again.
C9_RaisedBatchRetryable ==
    /\ BatchRaised =>
          LET e == Last(g_trace)
          IN  /\ Range(e.qs) \cap CompletedSearches = {}
              /\ Range(e.qs) \cap completed_searches_file = {}
              /\ Len(failed_items_file) = Len(e.log) + Len(e.qs)
              /\ SubSeq(failed_items_file, 1, Len(e.log)) = e.log
              /\ \A k \in 1..Len(e.qs) :
                    failed_items_file[Len(e.log) + k].item = QueryItem(e.qs[k])
              /\ pending_links_file = e.pending
              /\ PendingQueue = e.pending
    /\ (phase = "search" /\ run >= 2 /\ pc # "s_start") =>
          Raised(g_prev.trace) \subseteq Range(remaining)

\* C9 witness: a batch of two queries raised in the first run and is
\* scheduled again by the second
C9_Witness ==
    /\ phase = "search"
    /\ run = 2
    /\ pc = "s_exec"
    /\ g_prev.clean
    /\ Cardinality(Raised(g_prev.trace)) = 2
    /\ Raised(g_prev.trace) \subseteq Range(pending_queries)
    /\ Len(failed_items_file) >= 2

\* the scenario: two queries, one per batch, both submitted in this run;
\* ok is the batch that returned links, other the other batch
Scenario(ok, other) ==
    /\ phase = "search"
    /\ run = 1
    /\ pc = "done"
    /\ batch_size = 1
    /\ Len(queries) = 2
    /\ Len(g_trace) = 2
    /\ {ok, other} = {1, 2}
    /\ g_trace[ok].outcome = "ret"
    /\ ~g_trace[ok].results[1].error
    /\ g_trace[ok].results[1].place_links # <<>>

ErrorResult(e) == e.outcome = "ret" /\ e.results[1].error

ScenarioOutcome(ok, other) ==
    /\ completed_searches_file = g_start.completed \cup {g_trace[ok].qs[1]}
    /\ g_trace[other].qs[1] \notin completed_searches_file
    /\ Range(pending_links_file)
          = Range(g_start.pending) \cup EntryUnseen(g_trace[ok])
    /\ g_start.pending = <<>> =>
          pending_links_file = Unseen(g_start.seen.ids, g_trace[ok].results[1].place_links)
    /\ failed_items_file
          = Append(g_start.failures,
                   [item |-> QueryItem(g_trace[other].qs[1]), error |-> "error"])

\* C10 (as stated): with batch size 1, links for one query and an error for
\* the other, the phase ends with exactly the query without error completed,
\* exactly the unseen returned links queued, and exactly one FailureLog
\* entry, for the query with the error.
C10_Scenario ==
    \A ok, other \in {1, 2} :
        (Scenario(ok, other)
           /\ (g_trace[other].outcome = "raise" \/ ErrorResult(g_trace[other])))
            => ScenarioOutcome(ok, other)

\* C10 (amended): with batch size 1, links for one query and an executor call
\* that raises for the other, the phase ends with exactly the query that did
\* not raise completed, exactly the unseen returned links queued, and exactly
\* one FailureLog entry, for the query that raised; when the executor instead
\* returns an error result for the other query, both queries are completed
\* and FailureLog gets no entry.
C10_ScenarioAmended ==
    \A ok, other \in {1, 2} :
        /\ (Scenario(ok, other) /\ g_trace[other].outcome = "raise")
              => ScenarioOutcome(ok, other)
        /\ (Scenario(ok, other) /\ ErrorResult(g_trace[other])) =>
              /\ completed_searches_file
                    = g_start.completed \cup {g_trace[1].qs[1], g_trace[2].qs[1]}
              /\ failed_items_file = g_start.failures
              /\ Range(pending_links_file)
                    = Range(g_start.pending) \cup EntryUnseen(g_trace[ok])

\* C10 witness: four links returned for the first query, three of them
\* unseen, and a raise for the second, with no query completed before
C10_Witness ==
    /\ Scenario(1, 2)
    /\ g_trace[2].outcome = "raise"
    /\ g_start.completed = {}
    /\ g_start.pending = <<>>
    /\ Len(g_trace[1].results[1].place_links) = 4
    /\ Len(pending_links_file) = 3
    /\ completed_searches_file = {QItalian}
    /\ Len(failed_items_file) = 1
    /\ failed_items_file[1].item = QueryItem(QThai)

(***************************************************************************)
(* Properties of the DeduplicationManager                                  *)
(***************************************************************************)
\* a record with a primary identifier, or with both a name and an address
HasIdentity(r) == r.place_id # NoId \/ (r.name # NoText /\ r.address # NoText)

FreshIndex == g_start.seen = EmptyIndex

\* C11 (as stated): on a fresh index, filter_unique of a non-empty list
\* returns a non-empty list and, called again with the same list, an empty one.
C11_DedupSoundness ==
    (phase = "dedup" /\ pc = "p_twice" /\ FreshIndex) =>
        /\ g_trace[1] # <<>>
        /\ g_trace[2] = <<>>

\* C11 (amended): on a fresh index, filter_unique of a non-empty list of
\* records returns a non-empty list; called again with the same list it
\* returns the records that have neither a primary identifier nor both a name
\* and an address, so an empty list when every record has one of the two.
C11_DedupSoundnessAmended ==
    (phase = "dedup" /\ pc \in {"p_once", "p_twice"} /\ FreshIndex) =>
        /\ g_trace[1] # <<>>
        /\ pc = "p_twice" =>
              /\ g_trace[2] = SelectSeq(results, LAMBDA r : ~HasIdentity(r))
              /\ (\A k \in 1..Len(results) : HasIdentity(results[k])) => g_trace[2] = <<>>

\* C11 witness: two records with an identity, both returned by the first
\* call, none by the second
C11_Witness ==
    /\ phase = "dedup"
    /\ pc = "p_twice"
    /\ FreshIndex
    /\ Len(results) = 2
    /\ \A k \in 1..2 : HasIdentity(results[k])
    /\ Len(g_trace[1]) = 2
    /\ g_trace[2] = <<>>

Norm(t) == Strip(Lower(t))

SameKey(a, b) ==
    /\ a.name # NoText /\ a.address # NoText
    /\ b.name # NoText /\ b.address # NoText
    /\ Norm(a.name) = Norm(b.name)
    /\ Norm(a.address) = Norm(b.address)

\* what C12 states of the returned list, against the index before the call
UniqueAmongReturned ==
    /\ \A a, b \in 1..Len(unique_results) :
          a # b =>
              /\ ~(unique_results[a].place_id # NoId
                     /\ unique_results[a].place_id = unique_results[b].place_id)
              /\ ~SameKey(unique_results[a], unique_results[b])
    /\ \A a \in 1..Len(unique_results) :
          /\ unique_results[a].place_id = NoId \/ unique_results[a].place_id \notin g_index.ids
          /\ \A h \in g_index.hashes :
                ~(unique_results[a].name # NoText /\ unique_results[a].address # NoText
                    /\ h = Norm(unique_results[a].name) \o <<"|">>
                               \o Norm(unique_results[a].address))

IdenticalPair ==
    /\ g_index = EmptyIndex
    /\ Len(results) = 2
    /\ results[1] = results[2]

\* C12 (as stated): no two returned records share an identifier or a
\* (name, address) key, none is a duplicate of the index before the call, and
\* two identical records on an empty index return exactly one.
C12_IntraCallDedup ==
    (phase = "dedup" /\ pc \in {"p_once", "p_twice"}) =>
        /\ UniqueAmongReturned
        /\ IdenticalPair => Len(unique_results) = 1

\* C12 (amended): no two returned records share an identifier or a
\* (name, address) key, and none is a duplicate of the index before the call;
\* two identical records on an empty index return exactly one when the record
\* has an identifier or both a name and an address, and both otherwise.
C12_IntraCallDedupAmended ==
    (phase = "dedup" /\ pc \in {"p_once", "p_twice"}) =>
        /\ UniqueAmongReturned
        /\ IdenticalPair =>
              Len(unique_results) = IF HasIdentity(results[1]) THEN 1 ELSE 2

\* C12 witness: two records of different identifiers and the same name and
\* address up to case and whitespace; the second is dropped
C12_Witness ==
    /\ phase = "dedup"
    /\ pc = "p_once"
    /\ g_index = EmptyIndex
    /\ Len(results) = 2
    /\ results[1].place_id = HexPairs[1]
    /\ results[2].place_id = HexPairs[2]
    /\ results[1].name # results[2].name
    /\ SameKey(results[1], results[2])
    /\ unique_results = <<results[1]>>

NoIdPair ==
    /\ phase = "dedup"
    /\ pc = "p_marked"
    /\ results[1].place_id = NoId
    /\ results[2].place_id = NoId
    /\ Norm(results[1].name) = Norm(results[2].name)
    /\ Norm(results[1].address) = Norm(results[2].address)

\* C13 (as stated): of two records without identifier whose name and address
\* are equal after lower-casing and trimming, the second is a duplicate once
\* the first is marked seen.
C13_FallbackIdentity ==
    NoIdPair => is_duplicate(dedup, results[2])

\* C13 (amended): of two records without identifier whose name and address
\* are both present and equal after lower-casing and trimming, the second is
\* a duplicate once the first is marked seen; when the name or the address is
\* absent, mark_seen records nothing and the second is not a duplicate.
C13_FallbackIdentityAmended ==
    NoIdPair =>
        /\ (results[1].name # NoText /\ results[1].address # NoText)
              => is_duplicate(dedup, results[2])
        /\ (results[1].name = NoText \/ results[1].address = NoText)
              => /\ dedup = g_index
                 /\ ~is_duplicate(dedup, results[2])

\* C13 witness: the two records differ in case and whitespace only, on an
\* index that was empty
C13_Witness ==
    /\ NoIdPair
    /\ g_index = EmptyIndex
    /\ results[1].name = NameJoe
    /\ results[2].name = NameJoeVariant
    /\ results[1].address = AddrMainVariant
    /\ results[2].address = AddrMain
    /\ is_duplicate(dedup, results[2])

\* C14: filter_unseen_links returns, in input order, the links that do not
\* carry a seen identifier behind the "!1s" marker; a link without such an
\* identifier is kept; the index is not changed.
C14_FilterUnseenLinks ==
    (phase = "dedup" /\ pc = "p_links") =>
        /\ batch_links = SelectSeq(batch, LAMBDA l : ~SeenLink(g_index.ids, l))
        /\ \A k \in 1..Len(batch) :
              MarkerMatches(batch[k]) = {} => batch[k] \in Range(batch_links)
        /\ dedup = g_index

\* C14 witness: of four links the one with a seen identifier is dropped, the
\* one with the same identifier outside the marker is kept
C14_Witness ==
    /\ phase = "dedup"
    /\ pc = "p_links"
    /\ Len(batch) = 4
    /\ HexPairs[1] \in dedup.ids
    /\ HexPairs[2] \notin dedup.ids
    /\ batch_links = <<LinkRaw, Link(2), LinkData1>>

(***************************************************************************)
(* Properties of the Retry Phase                                           *)
(***************************************************************************)
InRetry == phase = "retry" /\ pc \in {"r_loop", "r_query", "r_progress", "r_saveall",
                                      "r_dedup", "r_rewrite", "done"}

LinkEntries(log) == SelectSeq(log, LAMBDA f : ~IsQueryItem(f.item))

QueryEntries(log) == SelectSeq(log, LAMBDA f : IsQueryItem(f.item))

\* C19: run_retry_phase re-issues only the FailureLog entries whose item is a
\* query: no link item is handed to the executor, and the entries whose item is
\* a link are in the FailureLog, unchanged and in their order, during the phase
\* and when it ends.
C19_RetryOnlyQueries ==
    InRetry =>
        /\ \A k \in 1..Len(g_trace) : IsQueryItem(g_trace[k].item)
        /\ \A k \in 1..Len(batch) : IsQueryItem(batch[k])
        /\ LinkEntries(failed_items_file) = LinkEntries(g_start.failures)

C19_Witness ==
    /\ InRetry
    /\ pc = "done"
    /\ LinkEntries(g_start.failures) # <<>>
    /\ QueryEntries(g_start.failures) # <<>>
    /\ \E k \in 1..Len(g_trace) : g_trace[k].outcome = "ret"
    /\ failed_items_file = LinkEntries(g_start.failures)

RetryEnded == phase = "retry" /\ pc = "done" /\ g_start.failures = failures

\* the item was retried: a call for it returned, or its query was completed already
WasRetried(item) ==
    \E k \in 1..Len(g_trace) : g_trace[k].item = item /\ g_trace[k].outcome # "raise"

InLog(item) == \E k \in 1..Len(failed_items_file) : failed_items_file[k].item = item

ReturnedLinksQueued(k) ==
    g_trace[k].outcome = "ret" =>
        Range(ResultLinks(dedup, g_trace[k].results[1])) \subseteq Range(pending_links_file)

\* C20: after run_retry_phase a query entry is still in the log if and only if
\* its retry call raised: a query whose call returned, or that was completed
\* already, is in the CompletedSearchSet, its unseen links are in the
\* PendingQueue and no entry with its item remains; a query whose call raised is
\* not in the CompletedSearchSet and its entry remains.
C20_RetryOutcome ==
    RetryEnded =>
        /\ Len(g_trace) = Len(QueryEntries(g_start.failures))
        /\ \A k \in 1..Len(g_trace) :
              IF g_trace[k].outcome = "raise"
              THEN /\ InLog(g_trace[k].item)
                   /\ g_trace[k].item.query \notin completed_searches_file
              ELSE /\ ~InLog(g_trace[k].item)
                   /\ g_trace[k].item.query \in completed_searches_file
                   /\ ReturnedLinksQueued(k)

\* C20, amended: the outcome is per item, not per entry.  After run_retry_phase
\* the log is the log read at the start without the entries whose item was
\* retried (some call for it returned, or its query was completed already);
\* the query of such an item is in the CompletedSearchSet and the unseen links
\* of a returned call are in the PendingQueue.  An item whose every call raised
\* keeps all its entries and its query is not in the CompletedSearchSet.  A
\* query recorded twice whose first call raised and whose second returned loses
\* both entries.
C20_RetryOutcomeAmended ==
    RetryEnded =>
        /\ Len(g_trace) = Len(QueryEntries(g_start.failures))
        /\ failed_items_file =
               SelectSeq(g_start.failures, LAMBDA f : ~WasRetried(f.item))
        /\ \A k \in 1..Len(g_trace) :
              IF WasRetried(g_trace[k].item)
              THEN /\ ~InLog(g_trace[k].item)
                   /\ g_trace[k].item.query \in completed_searches_file
                   /\ ReturnedLinksQueued(k)
              ELSE /\ InLog(g_trace[k].item)
                   /\ g_trace[k].item.query \notin completed_searches_file

C20_Witness ==
    /\ RetryEnded
    /\ \E a, b \in 1..Len(g_trace) :
          /\ g_trace[a].outcome = "raise"
          /\ g_trace[b].outcome = "ret"
          /\ g_trace[b].results[1].place_links # <<>>
          /\ g_trace[a].item # g_trace[b].item
          /\ InLog(g_trace[a].item)
          /\ ~InLog(g_trace[b].item)
    /\ \E k \in 1..Len(g_trace) : g_trace[k].outcome = "skip"

(***************************************************************************)
(* Properties of the checkpoint sets over the phases of one process        *)
(***************************************************************************)
IsPrefix(s, t) == Len(s) <= Len(t) /\ SubSeq(t, 1, Len(s)) = s

CompletedGrows ==
    /\ completed_searches_file \subseteq completed_searches_file'
    /\ CompletedSearches \subseteq CompletedSearches'
    /\ completed_searches.loaded => completed_searches'.loaded

IndexGrows ==
    /\ seen_places_file.ids \subseteq seen_places_file'.ids
    /\ seen_places_file.hashes \subseteq seen_places_file'.hashes
    /\ dedup.ids \subseteq dedup'.ids
    /\ dedup.hashes \subseteq dedup'.hashes

\* C15: the CompletedSearchSet and the DedupIndex (identifiers and hashes) only
\* grow: over every step of the Search, Details and Retry phases run by one
\* process, saves and loads included, no element leaves either set, neither in
\* memory nor on disk.
C15_SetsOnlyGrow == [][CompletedGrows /\ IndexGrows]_vars

C15_Witness ==
    /\ pc = "m_done"
    /\ retried_queries # <<>>
    /\ g_start.completed # completed_searches_file
    /\ {QItalian, QThai} \subseteq completed_searches_file
    /\ Cardinality(seen_places_file.ids) >= 2
    /\ seen_places_file.hashes # {}
    /\ seen_places_file = dedup

\* C16: the FailureLog only grows: over every step of the Search, Details and
\* Retry phases the list of failure entries never loses an entry.
C16_FailureLogOnlyGrows == [][IsPrefix(failed_items_file, failed_items_file')]_vars

\* C16, amended: the FailureLog only grows, by appended entries, over every step
\* of the Search and Details phases; the last step of the Retry Phase rewrites
\* it without the entries whose item was retried (a call for it returned, or
\* its query was completed already), keeps every other entry in its order, the
\* link entries among them, and adds none.
C16_FailureLogAmended ==
    [][IF pc = "r_rewrite"
       THEN /\ failed_items_file' =
                   SelectSeq(failed_items_file, LAMBDA f : ~WasRetried(f.item))
            /\ LinkEntries(failed_items_file') = LinkEntries(failed_items_file)
       ELSE IsPrefix(failed_items_file, failed_items_file')]_vars

C16_Witness ==
    /\ pc = "m_done"
    /\ Len(failed_items_file) < Len(failures)
    /\ QueryEntries(failed_items_file) # <<>>
    /\ LinkEntries(failed_items_file) # <<>>
    /\ Len(g_start.failures) > Len(EarlierFailures)

(***************************************************************************)
(* Properties of the PendingQueue                                          *)
(***************************************************************************)
\* C17: add_pending_links never double-enqueues: after any sequence of calls,
\* a call whose argument holds the same link more than once included, every
\* link occurs at most once in the PendingQueue, on disk and in memory (the
\* Search Phase starts from a queue without repetitions and calls it once per
\* batch with the links of all the batch's queries).
C17_NoDoubleEnqueue ==
    phase = "search" => NoDuplicates(pending_links_file) /\ NoDuplicates(PendingQueue)

AfterAttempt == phase = "details" /\ g_trace # <<>> /\ pc \in {"d_loop", "d_final", "done"}

BatchFailures == [k \in 1..Len(batch) |-> [item |-> LinkItem(batch[k]), error |-> "error"]]

\* C18: unconditional removal: after a batch attempt of run_details_phase no
\* link of the batch is in the PendingQueue, on disk or in memory, whether the
\* executor returned or raised; a raised attempt appends to the FailureLog
\* exactly one entry per link of the batch, in the batch's order, and no other
\* step of the phase changes the log; no step of the phase adds a link to the
\* queue.
C18_UnconditionalRemoval ==
    /\ [](AfterAttempt =>
            /\ Range(batch) \cap Range(pending_links_file) = {}
            /\ Range(batch) \cap Range(PendingQueue) = {})
    /\ [][phase = "details" =>
            /\ failed_items_file' =
                   IF pc = "d_except" THEN failed_items_file \o BatchFailures
                   ELSE failed_items_file
            /\ Range(pending_links_file') \subseteq Range(pending_links_file)
            /\ Range(PendingQueue') \subseteq Range(PendingQueue)]_vars

C18_Witness ==
    /\ AfterAttempt
    /\ pc = "d_loop"
    /\ Len(g_trace) >= 2
    /\ g_trace[Len(g_trace)] = "raise"
    /\ \E k \in 1..Len(g_trace) : g_trace[k] = "saved"
    /\ Len(batch) = 2
    /\ failed_items_file = BatchFailures
    /\ pending_links_file # <<>>

(***************************************************************************)
(* Properties of the CheckpointManager                                     *)
(***************************************************************************)
\* C21: reset empties the store: after reset, whatever was called before, the
\* pending links are empty, no query is completed, the failures are empty and
\* the progress is the initial default, for the resetting instance (its caches
\* and the files it re-reads) and for a new instance on the same directory
\* (the files alone).
C21_ResetEmpties ==
    (phase = "store" /\ pc = "st_reset") =>
        /\ PendingQueue = <<>>
        /\ CompletedSearches = {}
        /\ failed_items_file = <<>>
        /\ progress_file = DefaultProgress
        /\ get_pending_links(NotLoaded, pending_links_file) = <<>>
        /\ completed_searches_file = {}

C21_Witness ==
    /\ phase = "store"
    /\ pc = "st_reset"
    /\ g_before # <<>>
    /\ batch_links # <<>>
    /\ ~pending_links.loaded

\* C23: a failed write of pending_links.json keeps the in-memory state going:
\* add_pending_links and remove_processed_links return without raising, and
\* the PendingQueue seen by the same instance afterwards holds the links added,
\* and none of the links removed.
C23_MemoryAfterFailedWrite ==
    /\ (phase = "store" /\ pc = "st_addfailed") =>
           Range(batch_links) \subseteq Range(PendingQueue)
    /\ (phase = "store" /\ pc = "st_removefailed") =>
           Range(batch) \cap Range(PendingQueue) = {}

\* C22: lenient load: opening the checkpoint store or the dedup index when a
\* file is missing or corrupt (not JSON, or JSON of another shape) never
\* raises, and gives the empty state for that file.
C22_LenientLoad ==
    phase = "load" =>
        /\ pc # "l_raised"
        /\ (pc = "l_dedup" /\ file_state["seen_places"] # "ok") => dedup = EmptyIndex
        /\ (completed_searches.loaded /\ file_state["completed_searches"] # "ok") =>
               completed_searches.val = {}
        /\ (pending_links.loaded /\ file_state["pending_links"] # "ok") =>
               pending_links.val = <<>>
(***************************************************************************)
(* Properties of the recovery variants                                     *)
(***************************************************************************)
MainCheckpointKept ==
    /\ completed_searches_file' = completed_searches_file
    /\ pending_links_file' = pending_links_file
    /\ failed_items_file' = failed_items_file
    /\ progress_file' = progress_file
    /\ final_json' = final_json
    /\ batch_files' = batch_files

\* C24: no step of recovery_search (phase 1 or phase 2) changes the main
\* completed_searches.json, pending_links.json, failed_items.json, progress.json
\* or the saved results; the one main file it writes is seen_places.json, and
\* every identifier and hash that was in it stays in it.
C24_NamespaceIsolation ==
    [][/\ MainCheckpointKept
       /\ seen_places_file.ids \subseteq seen_places_file'.ids
       /\ seen_places_file.hashes \subseteq seen_places_file'.hashes]_vars

C24_Witness ==
    /\ pc = "rc_done"
    /\ QItalian \in recovery_files.completed
    /\ recovery_files.output # <<>>
    /\ seen_places_file # g_start.seen

PrimaryIds(recs) == {r.place_id : r \in Range(recs)} \ {NoId}

\* C26 (recovery_search): when the recovery replay has finished, every record
\* it saved has its primary identifier in the canonical saved-entity collection.
C26_ReplayMerged ==
    (pc = "rc_done") => PrimaryIds(recovery_files.output) \subseteq PrimaryIds(final_json)

\* the identifiers the run started with: seen, saved, pending, already visited
StartWorkIds ==
    {p \in g_start.seen.ids :
        /\ \A r \in Range(g_start.final) : r.place_id # p
        /\ \A l \in Range(g_start.pending) : extract_place_id_from_url(l) # p
        /\ p \notin g_before}

\* C25: in every run of rescrape_rejected, first or later, the URLs to visit are
\* those of exactly the identifiers that were seen and neither saved, nor
\* extracted from a pending link, nor in rescrape_done.json when the run
\* started; every URL handed to the browser is one of them.
C25_WorkSet ==
    (phase = "rescrape") =>
        LET work == {rescrape_url(p) : p \in StartWorkIds}
        IN  /\ (pc \in {"rs_loop", "rs_merge"}) => Range(rescrape.urls) = work
            /\ g_fetched \subseteq work

C25_Witness ==
    /\ run = 2
    /\ pc = "rs_loop"
    /\ g_fetched # {}
    /\ HexPairs[1] \in g_before
    /\ HexPairs[2] \in SavedIds(g_start.final)
    /\ HexPairs[3] \in StartWorkIds

BadAttempt(e) == ~e.raised /\ ThresholdDen * e.errors > ThresholdNum * e.n

Returned(trace) == SelectSeq(trace, LAMBDA e : ~e.raised)

RECURSIVE TrailingBad(_)
TrailingBad(trace) ==
    IF trace = <<>> \/ ~BadAttempt(trace[Len(trace)]) THEN 0
    ELSE 1 + TrailingBad(SubSeq(trace, 1, Len(trace) - 1))

RescrapeHalted ==
    /\ pc \in {"rs_merge", "rs_done"}
    /\ rescrape.consecutive_bad_batches >= MAX_CONSECUTIVE_BAD_BATCHES

\* C27: rescrape_places has halted exactly when the last three batch attempts
\* each had more than 80% of their items null or error.
C27_HaltsAfterThreeBad ==
    (phase = "rescrape" /\ pc \in {"rs_loop", "rs_merge"}) =>
        (RescrapeHalted <=>
            /\ Len(g_trace) >= MAX_CONSECUTIVE_BAD_BATCHES
            /\ \A k \in 1..Len(g_trace) :
                  k > Len(g_trace) - MAX_CONSECUTIVE_BAD_BATCHES => BadAttempt(g_trace[k]))

\* C27 amended: among the batches whose browser call returned, the count is the
\* number of bad batches since the last batch at or below the threshold, and the
\* loop is left early exactly when that number reaches three; a batch whose call
\* raised neither counts nor resets. No URL from the halting batch on is in
\* rescrape_done.json by this run.
C27_HaltsAfterThreeBadReturned ==
    (phase = "rescrape" /\ pc \in {"rs_loop", "rs_merge"}) =>
        /\ rescrape.consecutive_bad_batches = TrailingBad(Returned(g_trace))
        /\ RescrapeHalted <=>
               rescrape.consecutive_bad_batches >= MAX_CONSECUTIVE_BAD_BATCHES
        /\ RescrapeHalted =>
               \A k \in 1..Len(rescrape.urls) :
                  k > i - batch_size => rescrape.urls[k][4] \notin rescrape_files.done

C27_Witness ==
    /\ RescrapeHalted
    /\ pc = "rs_merge"
    /\ i < Len(rescrape.urls)
    /\ rescrape_files.done # g_before

\* all_restaurants.json before the merge of this run is a prefix of it afterwards,
\* the identifiers appended are pairwise different and were not there, and every
\* record of the run has its identifier in the file
RescrapeMergeKeeps ==
    (phase = "rescrape" /\ pc = "rs_done" /\ ~options.dry_run) =>
        /\ IsPrefix(g_start.final, final_json)
        /\ \A j, k \in (Len(g_start.final) + 1)..Len(final_json) :
              /\ final_json[j].place_id \notin PrimaryIds(g_start.final)
              /\ final_json[j].place_id = final_json[k].place_id => j = k
        /\ PrimaryIds(all_restaurants) \subseteq PrimaryIds(final_json)

(***************************************************************************)
(* Properties of run_scraper                                               *)
(***************************************************************************)
ExecutorCalled == pc \in {"s_exec", "d_exec", "r_query"}

\* C28: in a run of run_scraper with dry_run set, whatever the mode, the
\* executor is never called and completed_searches.json, pending_links.json,
\* failed_items.json, seen_places.json and all_restaurants.json stay as they
\* were when the run started.
C28_DryRunCountOnly ==
    (phase # "dedup" /\ options.dry_run) => (~ExecutorCalled /\ Snapshot = g_start)

\* C29: an exception raised by the executor never leaves run_search_phase,
\* run_details_phase or run_retry_phase. When the Search Phase returns, every
\* query that was to be searched was submitted; when the Details Phase returns,
\* the queue is empty or the halting heuristic stopped it; when the Retry Phase
\* returns, every query to retry is completed or its retry raised and was caught.
C29_ExceptionsCaught ==
    /\ pc # "raised"
    /\ (phase = "search" /\ pc = "done") =>
           \A q \in Range(remaining) :
              \E k \in 1..Len(g_trace) : q \in Range(g_trace[k].qs)
    /\ (phase \in {"details", "details_again"} /\ pc = "done") =>
           \/ pending_links_file = <<>>
           \/ consecutive_empty_batches >= MAX_CONSECUTIVE_EMPTY
    /\ (phase = "retry" /\ pc = "done") =>
           \A k \in 1..Len(retry_queries) :
              \/ retry_queries[k].query \in completed_searches_file
              \/ \E n \in 1..Len(g_trace) :
                    g_trace[n].item = retry_queries[k] /\ g_trace[n].outcome = "raise"

C29_Witness ==
    /\ phase = "retry"
    /\ pc = "done"
    /\ \E n \in 1..Len(g_trace) : g_trace[n].outcome = "raise"
    /\ \E k \in 1..Len(failed_items_file) : failed_items_file[k].item = LinkItem(Link(1))
    /\ Len(failed_items_file) > 2

(***************************************************************************)
(* Properties of the halting heuristics                                    *)
(***************************************************************************)
DetailsHalted ==
    /\ phase = "details"
    /\ pc = "done"
    /\ consecutive_empty_batches >= MAX_CONSECUTIVE_EMPTY

RecoveryHalted ==
    /\ phase = "recovery"
    /\ pc = "rc_done"
    /\ consecutive_empty_batches >= RECOVERY_MAX_CONSECUTIVE_EMPTY

LastWriterCache == IF peer.writer = "a" THEN pending_links ELSE peer.pending_links

\* the writer of this step held view; the file it leaves has nothing but that
\* view and the links of the call
WrittenFromOwnView(view) ==
    \/ /\ batch' = batch
       /\ Range(pending_links_file') = Range(view) \cup Range(batch_links')
    \/ /\ batch_links' = batch_links
       /\ pending_links_file' = SelectSeq(view, LAMBDA l : l \notin Range(batch'))

\* C31: with two CheckpointManager instances on one directory, after every
\* write pending_links.json is the whole in-memory queue of the instance that
\* wrote last, and each write is made from the writer's own view (its cache if
\* it has loaded one, the file otherwise) and the links of the call: what the
\* other instance wrote since is not merged in.
C31_LastWriteWins ==
    /\ [](peer.writer # "none" =>
             LastWriterCache.loaded /\ pending_links_file = LastWriterCache.val)
    /\ [][pending_links_file' # pending_links_file =>
             LET old == IF peer'.writer = "a" THEN pending_links ELSE peer.pending_links
             IN  WrittenFromOwnView(IF old.loaded THEN old.val ELSE pending_links_file)]_vars

C31_Witness ==
    /\ phase = "peers"
    /\ peer.writer = "a"
    /\ \E l \in Range(peer.pending_links.val) :
          /\ l \notin Range(pending_links_file)
          /\ l \notin g_batched
          /\ l \notin Range(g_start.pending)

\* C32: after add_pending_links the queue the instance held before the call
\* is a prefix of the queue it holds now, the links of the call that were new
\* follow in the order given, and a batch taken from a queue that held at least
\* batch_size links is the same before and after.
C32_TailAppend ==
    (phase = "peers" /\ pc = "pe_add") =>
        /\ g_initial = g_before \o NewLinks(g_before, batch_links)
        /\ Len(g_before) >= batch_size =>
               get_next_batch(g_initial, batch_size) = get_next_batch(g_before, batch_size)

(***************************************************************************)
(* Properties of the accumulated result set                                *)
(***************************************************************************)
SameRecordKey(r1, r2) ==
    \/ r1.place_id # NoId /\ r1.place_id = r2.place_id
    \/ SameKey(r1, r2)

NoDupKeys(recs) == \A j, k \in 1..Len(recs) : j # k => ~SameRecordKey(recs[j], recs[k])

C34_VariantsAgree ==
    (phase = "variants" /\ pc = "v_done") =>
        /\ Range(pending_links_file) = Range(recovery_files.pending)
        /\ all_restaurants = recovery_files.output

CeilDiv(a, b) == (a + b - 1) \div b

\* C35: a run of run_details_phase takes at most ceil(len(queue)/batchSize)
\* batches, and the queue a batch is taken from is shorter than the queue the
\* batch before it was taken from, also when pending_links.json cannot be written.
C35_BoundedIterations ==
    /\ [](phase = "details" => Len(g_trace) <= CeilDiv(Len(g_initial), batch_size))
    /\ [][(phase = "details" /\ pc = "d_loop" /\ pc' = "d_exec" /\ Len(g_trace) > 0)
             => Len(PendingQueue) < Len(g_before)]_vars

\* C38: after a batch whose result list has a None slot, run_search_phase has
\* not raised, the queries of the other slots are completed, and at the end of
\* the batch CompletedSearchSet is on disk.
C38_NullSlotTolerated ==
    (phase = "search" /\ NullSlots(search_results) # {} /\ pc \notin {"s_exec", "s_merge"}) =>
        /\ pc # "raised"
        /\ \A k \in 1..Len(search_results) :
              k \notin NullSlots(search_results) =>
                  search_results[k].query \in CompletedSearches
        /\ pc = "s_loop" => completed_searches_file = CompletedSearches

\* the place of a phase in the order search, details, retry, details, complete
PhaseRank(p) ==
    CASE p = "search" -> 1
      [] p = "details" -> 2
      [] p = "retry" -> 3
      [] p = "details_again" -> 4
      [] p = "complete" -> 5
      [] OTHER -> 0

\* what progress.json says while phase function p runs
SnapshotPhase(p) == IF p = "details_again" THEN "details" ELSE p

C37_CompleteMeansDrained ==
    (progress_file.phase = "complete" /\ ~options.skip_details) =>
        (pending_links_file = <<>> /\ PendingQueue = <<>>)

\* C39: a link that a Details batch of the run has taken out of PendingQueue is
\* not in PendingQueue again while or after the Retry Phase discovers links.
C39_NoReenqueue ==
    (phase = "retry" /\ pc # "r_start") =>
        \A l \in g_batched : l \notin Range(PendingQueue) \cup Range(pending_links_file)

\* C40: after a batch of rescrape_places that returned, an identifier of the
\* batch is in the done checkpoint only if its slot holds a non-error outcome;
\* after a batch that raised, none of its identifiers is in the checkpoint.
C40_DoneOnlyNonError ==
    (phase = "rescrape" /\ pc \in {"rs_loop", "rs_merge"} /\ g_trace # <<>>) =>
        \A k \in 1..Len(batch) :
            extract_place_id_from_url(batch[k]) \in rescrape_files.done =>
                /\ ~g_trace[Len(g_trace)].raised
                /\ IsRecord(results[k])

====
